---- MODULE Spec2Model ----
(***************************************************************************)
(* Verification model of the dragon virtual machine (src/src/vm.c), its    *)
(* string intern table (src/src/table.c, src/src/object.c) and the native   *)
(* re-entrance (src/src/natives.c).                                         *)
(*                                                                          *)
(* The VM state is held in the module's variables.  C functions that call   *)
(* each other (push, pop, throwException, throwGeneral, call, ...) are      *)
(* operators over a record `m' of the VM's fields; every action packs the  *)
(* variables into such a record (VM), applies the handler and commits the   *)
(* resulting record (Commit).                                               *)
(***************************************************************************)
EXTENDS Integers, Sequences, FiniteSets, TLC

(***************************************************************************)
(* Bounds of the model.                                                     *)
(***************************************************************************)
MaxStrings == 3
MaxStrLen == 1

(***************************************************************************)
(* Values (src/src/value.h): a tag and a payload.  Heap objects are         *)
(* referred to by their index in the heap of their kind.                    *)
(***************************************************************************)
NULL_VAL == <<"null", 0>>
BOOL_VAL(b) == <<"bool", IF b THEN 1 ELSE 0>>
NUMBER_VAL(n) == <<"number", n>>
\* a number is a double: HALF_VAL(n) is n / 2 for an odd n
HALF_VAL(n) == <<"number", n, 2>>
\* floor(value) == value, of the number in a value
isInteger(value) == Len(value) = 2
\* an instance of class k: one that the model does not tell from the other
\* instances of its class, and one with fields, at index i of the heap
INST_VAL(k) == <<"instance", k>>
OBJ_INST_VAL(k, i) == <<"instance", k, i>>
CLOSURE_VAL(c) == <<"closure", c>>
LIST_VAL(l) == <<"list", l>>
STRING_VAL(s) == <<"string", s>>
\* a bound method is told by its receiver and its closure
newBoundMethod(receiver, method) == <<"bound", method, receiver>>
IS_BOUND_METHOD(v) == v[1] = "bound"
\* what a read of an uninitialised or stale location may yield
GARBAGE_VAL == <<"garbage", 0>>

IS_NULL(v) == v[1] = "null"
IS_NUMBER(v) == v[1] = "number"
IS_INSTANCE(v) == v[1] = "instance"
IS_CLOSURE(v) == v[1] = "closure"
IS_LIST(v) == v[1] = "list"
IS_STRING(v) == v[1] = "string"
AS_NUMBER(v) == v[2]
AS_OBJ(v) == v[2]

(***************************************************************************)
(* Hash table (src/src/table.c).  A table is a record of count, capacity    *)
(* and entries; entry i of the C array is entries[i + 1].  A key is the     *)
(* index of a string object, 0 is the NULL key.                             *)
(***************************************************************************)
Bytes == {97, 98}

\* bitwise xor of two naturals
RECURSIVE Xor(_, _)
Xor(a, b) ==
  IF a = 0 THEN b
  ELSE IF b = 0 THEN a
  ELSE ((((a % 2) + (b % 2)) % 2) + (2 * Xor(a \div 2, b \div 2)))

\* FNV-1a over 32 bits; the hash is kept as its two 16-bit halves <<hi, lo>>
\* so that every intermediate product stays below 2^31.
\* 2166136261 = 33052 * 65536 + 40389 and 16777619 = 2^24 + 403.
FnvOffsetHi == 33052
FnvOffsetLo == 40389
FnvPrimeLow == 403

hashStep(h, byte) ==
  LET lo1 == Xor(h[2], byte)
      hi1 == h[1]
      p   == lo1 * FnvPrimeLow
      lo2 == p % 65536
      hi2 == ((hi1 * FnvPrimeLow) + (p \div 65536) + ((lo1 % 256) * 256)) % 65536
  IN  <<hi2, lo2>>

RECURSIVE hashFrom(_, _, _)
hashFrom(h, chars, i) ==
  IF i > Len(chars) THEN h ELSE hashFrom(hashStep(h, chars[i]), chars, i + 1)

hashString(chars) == hashFrom(<<FnvOffsetHi, FnvOffsetLo>>, chars, 1)

\* hash & (capacity - 1) for a capacity that is a power of two below 2^16
HashIndex(h, capacity) == h[2] % capacity

GROW_CAPACITY(capacity) == IF capacity < 8 THEN 8 ELSE capacity * 2

EmptyEntry == [key |-> 0, value |-> NULL_VAL]
Tombstone == [key |-> 0, value |-> BOOL_VAL(TRUE)]

initTable == [count |-> 0, capacity |-> 0, entries |-> <<>>]

\* a plausible slip: the probe takes the first entry without a key, also
\* when it is a tombstone and the key lies behind it
RECURSIVE findEntryFirstFree(_, _, _, _, _, _, _)
findEntryFirstFree(objs, entries, capacity, key, index, tombstone, n) ==
  IF n > capacity THEN -1
  ELSE LET entry == entries[index + 1] IN
    IF entry.key = 0 THEN index
    ELSE IF entry.key = key THEN index
    ELSE findEntryFirstFree(objs, entries, capacity, key,
                            (index + 1) % capacity, tombstone, n + 1)

\* findEntry: the index (0-based) of the entry for `key', probing linearly;
\* -1 when the probe went round the whole array without finding an end
\* (the C loop would not terminate).
RECURSIVE findEntryFrom(_, _, _, _, _, _, _)
findEntryFrom(objs, entries, capacity, key, index, tombstone, n) ==
  IF n > capacity THEN -1
  ELSE LET entry == entries[index + 1] IN
    IF entry.key = 0
    THEN IF IS_NULL(entry.value)
         THEN (IF tombstone # -1 THEN tombstone ELSE index)
         ELSE findEntryFrom(objs, entries, capacity, key, (index + 1) % capacity,
                            IF tombstone = -1 THEN index ELSE tombstone, n + 1)
    ELSE IF entry.key = key THEN index
    ELSE findEntryFrom(objs, entries, capacity, key, (index + 1) % capacity,
                       tombstone, n + 1)

findEntry(objs, entries, capacity, key) ==
  findEntryFrom(objs, entries, capacity, key,
                HashIndex(objs[key].hash, capacity), -1, 1)

RECURSIVE adjustCopy(_, _, _, _, _, _)
adjustCopy(objs, old, i, entries, capacity, count) ==
  IF i > Len(old) THEN [entries |-> entries, count |-> count]
  ELSE IF old[i].key = 0
       THEN adjustCopy(objs, old, i + 1, entries, capacity, count)
       ELSE LET dest == findEntry(objs, entries, capacity, old[i].key)
            IN  adjustCopy(objs, old, i + 1,
                           [entries EXCEPT ![dest + 1] = old[i]],
                           capacity, count + 1)

adjustCapacity(objs, table, capacity) ==
  LET r == adjustCopy(objs, table.entries, 1,
                      [i \in 1..capacity |-> EmptyEntry], capacity, 0)
  IN  [count |-> r.count, capacity |-> capacity, entries |-> r.entries]

\* tableSet: the table afterwards and the value returned (isNewKey)
tableSet(objs, table, key, value) ==
  LET t1 == IF 4 * (table.count + 1) > 3 * table.capacity
            THEN adjustCapacity(objs, table, GROW_CAPACITY(table.capacity))
            ELSE table
      e  == findEntry(objs, t1.entries, t1.capacity, key)
      entry == t1.entries[e + 1]
      isNewKey == entry.key = 0
      c1 == IF isNewKey /\ IS_NULL(entry.value) THEN t1.count + 1 ELSE t1.count
      c2 == IF isNewKey THEN c1 + 1 ELSE c1
  IN  [table |-> [t1 EXCEPT !.count = c2,
                            !.entries[e + 1] = [key |-> key, value |-> value]],
       isNewKey |-> isNewKey]

\* a plausible slip: what tableSet counted for the entry is taken off the
\* count again, so that tombstones no longer weigh on the load
tableDeleteUncounted(objs, table, key) ==
  IF table.count = 0 THEN table
  ELSE LET e == findEntry(objs, table.entries, table.capacity, key) IN
       IF table.entries[e + 1].key = 0 THEN table
       ELSE [table EXCEPT !.entries[e + 1] = Tombstone,
                          !.count = IF @ >= 2 THEN @ - 2 ELSE 0]

tableDelete(objs, table, key) ==
  IF table.count = 0 THEN table
  ELSE LET e == findEntry(objs, table.entries, table.capacity, key) IN
       IF table.entries[e + 1].key = 0 THEN table
       ELSE [table EXCEPT !.entries[e + 1] = Tombstone]

\* tableFindString: the interned object with these bytes, 0 (NULL) if none
RECURSIVE findStringFrom(_, _, _, _, _, _)
findStringFrom(objs, table, chars, hash, index, n) ==
  IF n > table.capacity THEN 0
  ELSE LET entry == table.entries[index + 1] IN
    IF entry.key = 0
    THEN IF IS_NULL(entry.value) THEN 0
         ELSE findStringFrom(objs, table, chars, hash,
                             (index + 1) % table.capacity, n + 1)
    ELSE IF /\ Len(objs[entry.key].chars) = Len(chars)
            /\ objs[entry.key].hash = hash
            /\ objs[entry.key].chars = chars
         THEN entry.key
         ELSE findStringFrom(objs, table, chars, hash,
                             (index + 1) % table.capacity, n + 1)

\* a plausible slip: the probe gives up at the first key-less entry, also
\* when it is a tombstone
RECURSIVE findStringStopAtTombstone(_, _, _, _, _, _)
findStringStopAtTombstone(objs, table, chars, hash, index, n) ==
  IF n > table.capacity THEN 0
  ELSE LET entry == table.entries[index + 1] IN
    IF entry.key = 0 THEN 0
    ELSE IF /\ Len(objs[entry.key].chars) = Len(chars)
            /\ objs[entry.key].hash = hash
            /\ objs[entry.key].chars = chars
         THEN entry.key
         ELSE findStringStopAtTombstone(objs, table, chars, hash,
                                        (index + 1) % table.capacity, n + 1)

tableFindStringNoTombstone(objs, table, chars, hash) ==
  IF table.count = 0 THEN 0
  ELSE findStringStopAtTombstone(objs, table, chars, hash,
                                 HashIndex(hash, table.capacity), 1)

tableFindString(objs, table, chars, hash) ==
  IF table.count = 0 THEN 0
  ELSE findStringFrom(objs, table, chars, hash,
                      HashIndex(hash, table.capacity), 1)


(***************************************************************************)
(* Strings (src/src/object.c).  A string object is a record of its bytes,   *)
(* its hash and whether it is still allocated.                              *)
(***************************************************************************)
\* allocateString: a new object, entered in vm->strings with value null
allocateString(objs, table, chars, hash) ==
  LET objs1 == Append(objs, [chars |-> chars, hash |-> hash, live |-> TRUE])
      key == Len(objs1)
  IN  [objs |-> objs1, table |-> tableSet(objs1, table, key, NULL_VAL).table,
       string |-> key]

\* a plausible slip: no lookup of the intern table before allocating
copyStringNoLookup(objs, table, chars) ==
  allocateString(objs, table, chars, hashString(chars))

copyString(objs, table, chars) ==
  LET hash == hashString(chars)
      interned == tableFindString(objs, table, chars, hash)
  IN  IF interned # 0
      THEN [objs |-> objs, table |-> table, string |-> interned]
      ELSE allocateString(objs, table, chars, hash)

\* takeString differs from copyString only in that it owns (and, when the
\* string is already interned, frees) the buffer it is given
takeString(objs, table, chars) ==
  LET hash == hashString(chars)
      interned == tableFindString(objs, table, chars, hash)
  IN  IF interned # 0
      THEN [objs |-> objs, table |-> table, string |-> interned]
      ELSE allocateString(objs, table, chars, hash)

\* tableRemoveWhite: delete every key whose object is not marked
RECURSIVE removeWhiteFrom(_, _, _, _)
removeWhiteFrom(objs, table, marked, i) ==
  IF i > table.capacity THEN table
  ELSE LET entry == table.entries[i] IN
       removeWhiteFrom(objs,
                       IF entry.key # 0 /\ entry.key \notin marked
                       THEN tableDelete(objs, table, entry.key) ELSE table,
                       marked, i + 1)

tableRemoveWhite(objs, table, marked) == removeWhiteFrom(objs, table, marked, 1)

\* the sweep that follows: unmarked string objects are freed
sweepStrings(objs, marked) ==
  [k \in 1..Len(objs) |-> IF k \in marked THEN objs[k]
                          ELSE [objs[k] EXCEPT !.live = FALSE]]

\* the byte sequences of length at most n
RECURSIVE StrOfLen(_)
StrOfLen(n) ==
  IF n = 0 THEN {<<>>}
  ELSE {Append(s, b) : s \in StrOfLen(n - 1), b \in Bytes}
RECURSIVE StrUpTo(_)
StrUpTo(n) == IF n = 0 THEN {<<>>} ELSE StrOfLen(n) \cup StrUpTo(n - 1)


(***************************************************************************)
(* The virtual machine (src/src/vm.h, src/src/vm.c).                        *)
(***************************************************************************)
VARIABLES
  frames,        \* vm->frames[0 .. frameCount-1]: the call frames
  stack,         \* vm->stack[0 .. stackTop-1]: the value stack
  openUpvalues,  \* vm->openUpvalues: head of the open-upvalue list, 0 is NULL
  upvalues,      \* heap of ObjUpvalue: location, closed, next
  closures,      \* heap of ObjClosure: function, upvalues
  lists,         \* heap of ObjList: the items
  strObjs,       \* heap of ObjString: chars, hash, live
  strings,       \* vm->strings: the intern table
  frameSize,     \* vm->frameSize: capacity of the frame array
  stackSize,     \* vm->stackSize: capacity of the value stack
  stackStorage,  \* the block of memory that vm->stack points to
  result,        \* the InterpreterResult last returned by fetchExecute
  crashed,       \* the process died of an invalid memory access
  raised,        \* the exception raised by the last instruction, if any
  lastOp,        \* the instruction last executed
  nativeCalls,   \* natives suspended in callDragonFromNative, innermost last
  callInfo,      \* the arguments of the last call: callee, args, stack base
  modules,       \* vm->modules: the modules in the order they were made
  classes,       \* heap of ObjClass: superclass, methods
  instances,     \* heap of ObjInstance: klass, fields
  natives,       \* heap of ObjNative: the value each is bound to
  exceptionClass,\* vm->exceptionClass
  importTable,   \* vm->importTable: path to Import instance
  chunk,         \* the code of the script when a compiled program is run
  source,        \* the syntax tree that code was compiled from
  tables,        \* two Tables as laid out in memory: count, capacity, entries
  contents,      \* per table, the keys set and not deleted since, with values
  answer,        \* the bool returned by the last tableSet or tableDelete
  shouldGC,      \* vm->shouldGC: an allocation may run the collector
  building       \* interpret or OP_IMPORT at work on a module: the step it
                 \* is at, vm->compiler, the objects made, what holds them

vars == <<frames, stack, openUpvalues, upvalues, closures, lists, strObjs,
          strings, frameSize, stackSize, stackStorage, result, crashed,
          raised, lastOp,
          nativeCalls, callInfo, modules, classes, instances, natives,
          exceptionClass, importTable, chunk, source, tables, contents,
          answer, shouldGC, building>>

FRAMES_MAX == 1024
InitialFrameSize == 64
StackPerFrame == 256

INTERPRETER_OK == 0
INTERPRETER_CONTINUE == 1
INTERPRETER_COMPILER_ERR == 2
INTERPRETER_RUNTIME_ERR == 3
\* a bool returned where an InterpreterResult is expected
BoolAsResult(b) == IF b THEN 1 ELSE 0

\* the built-in classes of a module (defineExceptionClasses)
ExceptionClass == 1
TypeException == 2
ArityException == 3
PropertyException == 4
IndexException == 5
UndefinedVariableException == 6
StackOverflowException == 7
ObjectClass == 8
ImportClass == 9
IteratorClass == 10
CLASS_VAL(k) == <<"class", k>>
IS_CLASS(v) == v[1] = "class"
NATIVE_VAL(k) == <<"native", k>>
IS_NATIVE(v) == v[1] = "native"
\* native->isBound is false
Unbound == <<"unbound", 0>>

\* A table whose keys are names (globals, exports, methods, fields, the
\* import table) is the function from the names it holds to their values;
\* the layout of src/src/table.c is modelled above for the intern table.
NoEntries == [name \in {} |-> NULL_VAL]
tableHas(table, name) == name \in DOMAIN table
tableGet(table, name) == table[name]
\* tableSet: the table afterwards (it returns whether the key is new)
tablePut(table, name, value) ==
  [k \in DOMAIN table \cup {name} |-> IF k = name THEN value ELSE table[k]]
tableRemove(table, name) == [k \in DOMAIN table \ {name} |-> table[k]]
tableAddAll(from, to) ==
  [k \in DOMAIN from \cup DOMAIN to |->
     IF k \in DOMAIN from THEN from[k] ELSE to[k]]

\* the names of the exception classes, in the order of definition
ExceptionNames ==
  <<"Exception", "TypeException", "ArityException", "PropertyException",
    "IndexException", "UndefinedVariableException",
    "StackOverflowException">>

newClass(superclassOf, methods) ==
  [superclass |-> superclassOf, methods |-> methods]

\* defineObjectNatives: the natives of Object, numbered after those of
\* lists and strings
ObjectNatives == <<"keys", "values", "entries", "hasProperty", "toString">>
ObjectMethods ==
  [name \in {ObjectNatives[j] : j \in 1..Len(ObjectNatives)} |->
     NATIVE_VAL(3 + (CHOOSE j \in 1..Len(ObjectNatives) :
                       ObjectNatives[j] = name))]

\* the native of lists that makes an iterator, and defineIteratorMethods:
\* the natives of Iterator, numbered after those of Object
NativeListIterator == 9
NativeIteratorConstructor == 10
NativeIteratorIterator == 11
NativeIteratorNext == 12
NativeIteratorMore == 13
IteratorMethods ==
  [name \in DOMAIN ObjectMethods
             \cup {"constructor", "iterator", "next", "more"} |->
     IF name = "constructor" THEN NATIVE_VAL(NativeIteratorConstructor)
     ELSE IF name = "iterator" THEN NATIVE_VAL(NativeIteratorIterator)
     ELSE IF name = "next" THEN NATIVE_VAL(NativeIteratorNext)
     ELSE IF name = "more" THEN NATIVE_VAL(NativeIteratorMore)
     ELSE ObjectMethods[name]]

\* defineExceptionClasses: Exception, made at heap index base + 1, and its
\* six subclasses after it, each with the methods of its superclass
exceptionClasses(base) ==
  [j \in 1..Len(ExceptionNames) |->
     newClass(IF j = ExceptionClass THEN ObjectClass
              ELSE base + ExceptionClass,
              tableAddAll(ObjectMethods, NoEntries))]

\* the classes once initVM and interpret have run: the exception classes
\* of the main module (numbered first), Object, Import and Iterator
MainClasses ==
  exceptionClasses(0)
    \o <<newClass(0, ObjectMethods),
         newClass(ObjectClass, tableAddAll(ObjectMethods, NoEntries)),
         newClass(ObjectClass, IteratorMethods)>>

\* the globals initModule gives a module whose exception classes start
\* after base; natives and numeric constants are left out
moduleGlobals(base, path) ==
  [name \in {ExceptionNames[j] : j \in 1..Len(ExceptionNames)}
             \cup {"Object", "Import", "$thisModule"} |->
     IF name = "Object" THEN CLASS_VAL(ObjectClass)
     ELSE IF name = "Import" THEN CLASS_VAL(ImportClass)
     ELSE IF name = "$thisModule" THEN <<"path", path>>
     ELSE CLASS_VAL(base + (CHOOSE j \in 1..Len(ExceptionNames) :
                              ExceptionNames[j] = name))]

\* initModule (with the $thisModule that its callers set): the new module
\* is the last of vm->modules, and vm->exceptionClass is its Exception
initModule(m, path) ==
  [m EXCEPT !.modules =
              Append(@, [globals |-> moduleGlobals(Len(m.classes), path),
                         exports |-> NoEntries]),
            !.classes = @ \o exceptionClasses(Len(m.classes)),
            !.exceptionClass = Len(m.classes) + ExceptionClass]

MainModule == [globals |-> moduleGlobals(0, "$main$"), exports |-> NoEntries]

\* klass->superclass; 0 is NULL
superclass(m, k) == m.classes[k].superclass

NoException == <<"none", 0>>

VM == [frames |-> frames, stack |-> stack, openUpvalues |-> openUpvalues,
       upvalues |-> upvalues, closures |-> closures, lists |-> lists,
       strObjs |-> strObjs, strings |-> strings, frameSize |-> frameSize,
       stackSize |-> stackSize, stackStorage |-> stackStorage,
       reallocMoves |-> FALSE, crashed |-> crashed, raised |-> raised,
       nativeCalls |-> nativeCalls, modules |-> modules, classes |-> classes,
       instances |-> instances, natives |-> natives,
       exceptionClass |-> exceptionClass,
       importTable |-> importTable]

frameCount(m) == Len(m.frames)
stackTop(m) == Len(m.stack)

push(m, value) == [m EXCEPT !.stack = Append(@, value)]

\* pop: the machine afterwards (popValue is the value returned)
pop(m) ==
  IF Len(m.stack) = 0 THEN m
  ELSE [m EXCEPT !.stack = SubSeq(@, 1, Len(@) - 1)]
popValue(m) == IF Len(m.stack) = 0 THEN NULL_VAL ELSE m.stack[Len(m.stack)]

\* popN: count is a size_t; a negative count stands for its value modulo 2^64,
\* which moves stackTop up over that many stale cells
popN(m, count) ==
  IF count >= 0
  THEN [m EXCEPT !.stack = SubSeq(@, 1, Len(@) - count)]
  ELSE [m EXCEPT !.stack = @ \o [i \in 1..(0 - count) |-> GARBAGE_VAL]]

peek(m, distance) == m.stack[Len(m.stack) - distance]

\* the value of the stack cell at address a (0-based); cells at or above
\* stackTop hold stale contents
stackAt(m, a) == IF a < Len(m.stack) THEN m.stack[a + 1] ELSE GARBAGE_VAL

\* vm->stackTop = p
setStackTop(m, p) ==
  IF p <= Len(m.stack)
  THEN [m EXCEPT !.stack = SubSeq(@, 1, p)]
  ELSE [m EXCEPT !.stack = @ \o [i \in 1..(p - Len(@)) |-> GARBAGE_VAL]]

(***************************************************************************)
(* Upvalues.  location >= 0 is the address of a stack cell (open);          *)
(* location = -1 is the upvalue's own `closed' cell.  The field `slot'      *)
(* keeps the address the upvalue was opened on; the program has no such     *)
(* field, it serves to tell the locals apart that lived in one cell.        *)
(* location and a frame's slots are pointers: `storage' is the block they   *)
(* point into, the one vm->stack pointed to when they were computed.        *)
(***************************************************************************)
RECURSIVE captureWalk(_, _, _, _)
captureWalk(ups, prevUpvalue, upvalue, local) ==
  IF upvalue # 0 /\ ups[upvalue].location > local
  THEN captureWalk(ups, upvalue, ups[upvalue].next, local)
  ELSE <<prevUpvalue, upvalue>>

\* a plausible slip: no reuse of the upvalue already open for the slot
captureUpvalueNoReuse(m, local) ==
  LET w == captureWalk(m.upvalues, 0, m.openUpvalues, local)
      created == Len(m.upvalues) + 1
      ups1 == Append(m.upvalues,
                     [location |-> local, closed |-> NULL_VAL, next |-> w[2],
                      slot |-> local, storage |-> m.stackStorage])
  IN  [m |-> IF w[1] = 0
             THEN [m EXCEPT !.upvalues = ups1, !.openUpvalues = created]
             ELSE [m EXCEPT !.upvalues = [ups1 EXCEPT ![w[1]].next = created]],
       upvalue |-> created]

captureUpvalue(m, local) ==
  LET w == captureWalk(m.upvalues, 0, m.openUpvalues, local)
      prevUpvalue == w[1]
      upvalue == w[2]
      created == Len(m.upvalues) + 1
      ups1 == Append(m.upvalues,
                     [location |-> local, closed |-> NULL_VAL, next |-> upvalue,
                      slot |-> local, storage |-> m.stackStorage])
  IN  IF upvalue # 0 /\ m.upvalues[upvalue].location = local
      THEN [m |-> m, upvalue |-> upvalue]
      ELSE [m |-> IF prevUpvalue = 0
                  THEN [m EXCEPT !.upvalues = ups1, !.openUpvalues = created]
                  ELSE [m EXCEPT !.upvalues =
                                   [ups1 EXCEPT ![prevUpvalue].next = created]],
            upvalue |-> created]

\* a plausible slip: the upvalue is unlinked but keeps pointing at the stack
RECURSIVE closeUpvaluesNoCopy(_, _)
closeUpvaluesNoCopy(m, last) ==
  IF m.openUpvalues # 0 /\ m.upvalues[m.openUpvalues].location >= last
  THEN LET upvalue == m.openUpvalues IN
       closeUpvaluesNoCopy(
         [m EXCEPT !.upvalues[upvalue].closed = NULL_VAL,
                   !.upvalues[upvalue].location = -1,
                   !.openUpvalues = m.upvalues[upvalue].next], last)
  ELSE m

RECURSIVE closeUpvalues(_, _)
closeUpvalues(m, last) ==
  IF m.openUpvalues # 0 /\ m.upvalues[m.openUpvalues].location >= last
  THEN LET upvalue == m.openUpvalues IN
       closeUpvalues(
         [m EXCEPT !.upvalues[upvalue].closed =
                      stackAt(m, m.upvalues[upvalue].location),
                   !.upvalues[upvalue].location = -1,
                   !.openUpvalues = m.upvalues[upvalue].next], last)
  ELSE m

\* *upvalue->location
readUpvalue(m, upvalue) ==
  IF m.upvalues[upvalue].location = -1 THEN m.upvalues[upvalue].closed
  ELSE stackAt(m, m.upvalues[upvalue].location)

\* *upvalue->location = value
writeUpvalue(m, upvalue, value) ==
  IF m.upvalues[upvalue].location = -1
  THEN [m EXCEPT !.upvalues[upvalue].closed = value]
  ELSE IF m.upvalues[upvalue].location < Len(m.stack)
       THEN [m EXCEPT !.stack[m.upvalues[upvalue].location + 1] = value]
       ELSE m

(***************************************************************************)
(* Exceptions.  The stack-trace strings that throwGeneral collects are not  *)
(* part of the model; an exception instance is identified by its class.     *)
(***************************************************************************)
\* one round of throwGeneral's loop and what follows it: a frame without a
\* try block is dropped with its upvalues closed, the exception carried
\* down; a frame with one takes the exception at its catch target
unwindFrame(m) ==
  LET frame == m.frames[Len(m.frames)] IN
  IF frame.isTry
  THEN [m |-> [m EXCEPT !.frames[Len(m.frames)].isTry = FALSE,
                        !.frames[Len(m.frames)].ip = frame.catchJump],
        done |-> TRUE, ok |-> TRUE]
  ELSE LET res == popValue(m)
           m1 == closeUpvalues(pop(m), frame.slots)
           m2 == [m1 EXCEPT !.frames = SubSeq(@, 1, Len(@) - 1)]
       IN  IF Len(m2.frames) = 0
           THEN [m |-> pop(m2), done |-> TRUE, ok |-> FALSE]
           ELSE [m |-> push(setStackTop(m2, frame.slots), res),
                 done |-> FALSE, ok |-> TRUE]

\* at most n rounds; the rounds are taken in two halves, which keeps the
\* evaluation shallow when a thousand frames are dropped
RECURSIVE unwindRounds(_, _)
unwindRounds(r, n) ==
  IF r.done \/ n = 0 THEN r
  ELSE IF n = 1 THEN unwindFrame(r.m)
  ELSE LET r1 == unwindRounds(r, n \div 2)
       IN  IF r1.done THEN r1 ELSE unwindRounds(r1, n - (n \div 2))

unwound(r) == [m |-> r.m, ok |-> r.ok]
unwind(m) ==
  unwound(unwindRounds([m |-> m, done |-> FALSE, ok |-> TRUE],
                       Len(m.frames) + 1))

throwGeneral(m, throwee) == unwind([m EXCEPT !.raised = throwee])

\* the message string is pushed while the instance is built
MessageString == STRING_VAL(0)

\* one table of globals for the whole machine
currentModuleShared(m) == 1

\* CURRENT_MODULE(): the module that owns the closure of the frame
currentModule(m) == m.closures[m.frames[Len(m.frames)].closure].owner

\* the class is the one the module of the running closure has under the
\* name among its globals; without one the message stays on the stack
throwException(m, klass) ==
  LET m1 == push(m, MessageString)
      globals == m.modules[currentModule(m)].globals
      name == ExceptionNames[klass]
  IN  IF ~tableHas(globals, name) THEN [m |-> m1, ok |-> FALSE]
      ELSE IF ~IS_CLASS(tableGet(globals, name)) THEN [m |-> m1, ok |-> FALSE]
      ELSE LET instance == INST_VAL(AS_OBJ(tableGet(globals, name)))
               m2 == push(m1, instance)
               m3 == push(popN(m2, 2), instance)
           IN  throwGeneral(m3, instance)

\* what a function hands back when it returns the bool of t: the machine,
\* the bool, and *argsUsed
returned(t, argsUsed) == [m |-> t.m, ok |-> t.ok, argsUsed |-> argsUsed]

\* `if (!f(...)) return INTERPRETER_RUNTIME_ERR; break;'
orFail(t) ==
  [m |-> t.m,
   res |-> IF t.ok THEN INTERPRETER_CONTINUE ELSE INTERPRETER_RUNTIME_ERR]

\* `if (!throwException(...)) return INTERPRETER_RUNTIME_ERR; break;'
throwOrFail(m, klass) == orFail(throwException(m, klass))

instanceof(m, klass, target) ==
  LET RECURSIVE walk(_)
      walk(currentClass) ==
        IF currentClass = 0 THEN FALSE
        ELSE IF currentClass = target THEN TRUE
        ELSE walk(superclass(m, currentClass))
  IN  walk(klass)


(***************************************************************************)
(* Calls.  A closure is a record of its function and its upvalues; a        *)
(* function is a record of arity, varargs, isLambda and upvalueCount.       *)
(***************************************************************************)
Function(arity, varargs, isLambda, upvalueCount) ==
  [arity |-> arity, varargs |-> varargs, isLambda |-> isLambda,
   upvalueCount |-> upvalueCount]

\* the top-level function of a module
ScriptFunction == Function(0, FALSE, FALSE, 0)

newList(m, items) ==
  [m |-> [m EXCEPT !.lists = Append(@, items)], list |-> Len(m.lists) + 1]

RECURSIVE pushNulls(_, _)
pushNulls(m, n) == IF n <= 0 THEN m ELSE pushNulls(push(m, NULL_VAL), n - 1)

RECURSIVE popTimes(_, _)
popTimes(m, n) == IF n <= 0 THEN m ELSE popTimes(pop(m), n - 1)

\* a plausible slip: surplus arguments of a lambda are left on the stack
lambdaAdjustKeepSurplus(m, arity, argCount) ==
  IF argCount > arity THEN m ELSE pushNulls(m, arity - argCount)

\* call, lines 361-370: a lambda's surplus arguments are popped, its missing
\* ones pushed as null
lambdaAdjust(m, arity, argCount) ==
  IF argCount > arity
  THEN popTimes(m, argCount - arity)
  ELSE pushNulls(m, arity - argCount)

\* a plausible slip: an off-by-one comparison against the cap
frameOverflowOffByOne(m) == frameCount(m) > FRAMES_MAX

\* call, line 375
frameOverflow(m) == frameCount(m) = FRAMES_MAX

\* a plausible slip: the frame base is put on the first parameter
frameSlotsNoCallee(m, expected) == stackTop(m) - expected

\* call, line 395: frame->slots
frameSlots(m, expected) == stackTop(m) - expected - 1

\* GROW_ARRAY of vm->stack: realloc hands back the block it was given,
\* grown in place, or another one, and frees the old one then.  Which is
\* the allocator's choice, that the instruction makes for it.
reallocate(m) ==
  IF m.reallocMoves THEN m.stackStorage + 1 ELSE m.stackStorage

\* call, lines 375-397: the overflow check, the growth of the frame array
\* and of the value stack, and the new frame
pushFrame(m, closure, expected, argsUsed) ==
  IF frameOverflow(m)
  THEN returned(throwException(m, StackOverflowException), argsUsed)
  ELSE LET m1 == IF frameCount(m) + 1 >= m.frameSize
                 THEN [m EXCEPT !.frameSize = GROW_CAPACITY(m.frameSize),
                                !.stackSize = StackPerFrame
                                                * GROW_CAPACITY(m.frameSize),
                                !.stackStorage = reallocate(m)]
                 ELSE m
           frame == [closure |-> closure, ip |-> 0,
                     slots |-> frameSlots(m1, expected),
                     isTry |-> FALSE, catchJump |-> 0,
                     storage |-> m1.stackStorage]
       IN  [m |-> [m1 EXCEPT !.frames = Append(@, frame)], ok |-> TRUE,
            argsUsed |-> argsUsed]

\* call: the machine afterwards, the bool returned and *argsUsed
call(m, closure, argCount, argsUsedIn) ==
  LET function == m.closures[closure].function
      expected == function.arity
  IN
  IF function.varargs
  THEN LET required == expected - 1 IN
       IF argCount < required
       THEN IF function.isLambda
            THEN \* varargCount = argCount - required wraps round 2^64 and
                 \* the copy loop runs off the stack
                 [m |-> [pushNulls(m, required - argCount)
                           EXCEPT !.crashed = TRUE],
                  ok |-> FALSE, argsUsed |-> argsUsedIn]
            ELSE returned(throwException(pop(m), ArityException), argsUsedIn)
       ELSE LET varargCount == argCount - required
                copied == IF varargCount > required
                          THEN varargCount - required ELSE 0
                array == [j \in 1..copied |-> peek(m, varargCount - j)]
                m1 == popN(m, varargCount - required)
                l  == newList(m1, array)
                m2 == push(l.m, LIST_VAL(l.list))
            IN  pushFrame(m2, closure, expected, expected + varargCount - 1)
  ELSE IF argCount # expected /\ ~function.isLambda
       THEN returned(throwException(m, ArityException), argsUsedIn)
       ELSE pushFrame(IF argCount # expected
                      THEN lambdaAdjust(m, expected, argCount) ELSE m,
                      closure, expected, expected)

\* vm->stackTop[-argCount - 1] = value
setCalleeSlot(m, argCount, value) ==
  [m EXCEPT !.stack[Len(m.stack) - argCount] = value]

\* callValue for bound methods, closures, classes without a constructor
\* and values that cannot be called
callValue(m, callee, argCount, argsUsedIn) ==
  IF IS_BOUND_METHOD(callee)
  THEN call(setCalleeSlot(m, argCount, callee[3]), callee[2], argCount,
            argsUsedIn)
  ELSE IF IS_CLOSURE(callee)
  THEN call(m, AS_OBJ(callee), argCount, argsUsedIn)
  ELSE IF IS_CLASS(callee)
  THEN LET m1 == setCalleeSlot(m, argCount, INST_VAL(AS_OBJ(callee))) IN
       IF argCount # 0
       THEN returned(throwException(pop(pop(m1)), ArityException), argsUsedIn)
       ELSE [m |-> m1, ok |-> TRUE, argsUsed |-> argsUsedIn]
  ELSE returned(throwException(pop(m), TypeException), argsUsedIn)


(***************************************************************************)
(* fetchExecute: one action per instruction.  The instruction at the        *)
(* current ip is not fixed by the model: every instruction whose bytes fit  *)
(* in the chunk may be the next one, so that the actions range over all     *)
(* programs of at most CodeLen bytes per function.                          *)
(***************************************************************************)
CodeLen == 7
MaxStack == 4
MaxDepth == 2
MaxLists == 1

\* the natives of vm->listMethods that the model knows
NativeLength == 1
NativeForEach == 2
NativeStringLength == 3
listMethods(name) ==
  IF name = "length" THEN NativeLength
  ELSE IF name = "forEach" THEN NativeForEach
  ELSE IF name = "iterator" THEN NativeListIterator
  ELSE 0
stringMethods(name) == IF name = "length" THEN NativeStringLength ELSE 0

Running == result = INTERPRETER_CONTINUE /\ ~crashed /\ frames # <<>>
CurrentFrame == frames[Len(frames)]
\* When a compiled program is run, the code of the frame: that of the
\* script in the frame of its closure; every other function has an empty
\* body, which is emitReturn alone
Code ==
  IF CurrentFrame.closure = 1 THEN chunk ELSE <<"OP_NULL", "OP_RETURN">>

\* the n bytes of the instruction lie in the chunk and, while the frame is in
\* a try block, before the catch target: the body of a try precedes its
\* catch block, so that no address is decoded twice.  When a compiled
\* program is run the bytes are those of its code.
CanFetch(n) ==
  IF chunk # <<>> THEN CurrentFrame.ip + n <= Len(Code)
  ELSE /\ CurrentFrame.ip + n <= CodeLen
       /\ CurrentFrame.isTry => CurrentFrame.ip + n <= CurrentFrame.catchJump

\* the machine once the n bytes of the instruction have been read
fetch(m, n) ==
  [m EXCEPT !.frames[Len(m.frames)].ip = @ + n, !.raised = NoException]

continue(m) == [m |-> m, res |-> INTERPRETER_CONTINUE]
NoCall == [callee |-> NULL_VAL, args |-> <<>>, base |-> 0, depth |-> 0]

\* newInstance, and the fields it is given afterwards
newInstance(m, klass, fields) ==
  [m |-> [m EXCEPT !.instances = Append(@, [klass |-> klass,
                                            fields |-> fields])],
   instance |-> OBJ_INST_VAL(klass, Len(m.instances) + 1)]

\* OP_IMPORT once callDragonFromNative has returned: the closure of the
\* module is popped, the Import instance made of the module's exports,
\* pushed and cached.  had is whether runFunction received INTERPRETER_OK:
\* then it has popped the value and callDragonFromNative *argsUsed values.
\* hasError is not looked at.
importAfter(m, had) ==
  LET nc == m.nativeCalls[Len(m.nativeCalls)]
      m0 == [m EXCEPT !.nativeCalls = SubSeq(@, 1, Len(@) - 1)]
      m1 == IF had THEN popTimes(pop(m0), nc.argsUsed) ELSE m0
      i == newInstance(pop(m1), ImportClass, m1.modules[nc.module].exports)
  IN  continue([push(i.m, i.instance) EXCEPT
                  !.importTable = tablePut(@, nc.path, i.instance)])

\* what the loop that called fetchExecute does with its result: run and
\* runFunction leave on anything but INTERPRETER_CONTINUE, and when it is
\* the runFunction of an OP_IMPORT, that instruction goes on
afterRun(r) ==
  IF /\ r.res # INTERPRETER_CONTINUE
     /\ r.m.nativeCalls # <<>>
     /\ r.m.nativeCalls[Len(r.m.nativeCalls)].kind = "import"
  THEN importAfter(r.m, r.res = INTERPRETER_OK)
  ELSE r

CommitVM(s, op, info) ==
  LET r == afterRun(s) IN
  /\ frames' = r.m.frames
  /\ stack' = r.m.stack
  /\ openUpvalues' = r.m.openUpvalues
  /\ upvalues' = r.m.upvalues
  /\ closures' = r.m.closures
  /\ lists' = r.m.lists
  /\ strObjs' = r.m.strObjs
  /\ strings' = r.m.strings
  /\ frameSize' = r.m.frameSize
  /\ stackSize' = r.m.stackSize
  /\ stackStorage' = r.m.stackStorage
  /\ natives' = r.m.natives
  /\ crashed' = r.m.crashed
  /\ raised' = r.m.raised
  /\ result' = r.res
  /\ lastOp' = op
  /\ callInfo' = info
  /\ nativeCalls' = r.m.nativeCalls
  /\ modules' = r.m.modules
  /\ classes' = r.m.classes
  /\ instances' = r.m.instances
  /\ exceptionClass' = r.m.exceptionClass
  /\ importTable' = r.m.importTable
  /\ chunk' = chunk
  /\ source' = source

\* the instructions that follow use the tables of the machine through
\* their contents only
Commit(s, op, info) ==
  /\ CommitVM(s, op, info)
  /\ UNCHANGED <<tables, contents, answer, shouldGC, building>>

\* no open upvalue points at one of the n topmost stack cells: the compiler
\* ends the life of a captured local with CLOSE_UPVALUE, never with a pop
\* (endScope), and temporaries are never captured
TopNotCaptured(n) ==
  \A u \in 1..Len(upvalues) :
    upvalues[u].location = -1 \/ upvalues[u].location < Len(stack) - n

OP_CONSTANT(constant) ==
  /\ Running /\ CanFetch(2)
  /\ Commit(continue(push(fetch(VM, 2), constant)), "OP_CONSTANT", NoCall)

OP_NULL ==
  /\ Running /\ CanFetch(1)
  /\ Commit(continue(push(fetch(VM, 1), NULL_VAL)), "OP_NULL", NoCall)

OP_POP ==
  /\ Running /\ CanFetch(1)
  /\ chunk = <<>> => Len(stack) > CurrentFrame.slots + 1
  /\ TopNotCaptured(1)
  /\ Commit(continue(pop(fetch(VM, 1))), "OP_POP", NoCall)

OP_TRUE ==
  /\ Running /\ CanFetch(1)
  /\ Commit(continue(push(fetch(VM, 1), BOOL_VAL(TRUE))), "OP_TRUE", NoCall)

OP_FALSE ==
  /\ Running /\ CanFetch(1)
  /\ Commit(continue(push(fetch(VM, 1), BOOL_VAL(FALSE))), "OP_FALSE",
            NoCall)

\* a read below the stack yields whatever lies there
peekOrStale(m, distance) ==
  IF distance < Len(m.stack) THEN peek(m, distance) ELSE GARBAGE_VAL

OP_DUP ==
  /\ Running /\ CanFetch(1)
  /\ Commit(continue(push(fetch(VM, 1), peekOrStale(VM, 0))), "OP_DUP",
            NoCall)

opSwap(m) ==
  LET a == peekOrStale(m, 0)
      b == peekOrStale(m, 1)
  IN  continue(push(push(pop(pop(m)), a), b))

OP_SWAP ==
  /\ Running /\ CanFetch(1)
  /\ Commit(opSwap(fetch(VM, 1)), "OP_SWAP", NoCall)

IS_BOOL(v) == v[1] = "bool"
isFalsey(value) == IS_NULL(value) \/ (IS_BOOL(value) /\ value[2] = 0)

OP_NOT ==
  /\ Running /\ CanFetch(1)
  /\ Commit(continue(push(pop(fetch(VM, 1)),
                          BOOL_VAL(isFalsey(peekOrStale(VM, 0))))),
            "OP_NOT", NoCall)

\* frame->ip += offset once the operand has been read
jump(m, offset) == [m EXCEPT !.frames[Len(m.frames)].ip = @ + offset]

opJumpIfFalse(m, offset) ==
  continue(IF isFalsey(peekOrStale(m, 0)) THEN jump(pop(m), offset)
           ELSE pop(m))

OP_JUMP_IF_FALSE(offset) ==
  /\ Running /\ CanFetch(3)
  /\ Commit(opJumpIfFalse(fetch(VM, 3), offset), "OP_JUMP_IF_FALSE", NoCall)

OP_JUMP(offset) ==
  /\ Running /\ CanFetch(3)
  /\ Commit(continue(jump(fetch(VM, 3), offset)), "OP_JUMP", NoCall)

OP_LOOP(offset) ==
  /\ Running /\ CanFetch(3)
  /\ Commit(continue(jump(fetch(VM, 3), 0 - offset)), "OP_LOOP", NoCall)

opList(m, itemCount) ==
  LET items == [i \in 1..itemCount |-> peek(m, itemCount - i)]
      l == newList(m, items)
  IN  continue(push(popN(l.m, itemCount), LIST_VAL(l.list)))

OP_LIST(itemCount) ==
  /\ Running /\ CanFetch(2)
  /\ Len(stack) - itemCount > CurrentFrame.slots
  /\ TopNotCaptured(itemCount)
  /\ Commit(opList(fetch(VM, 2), itemCount), "OP_LIST", NoCall)

\* the name operand of an instruction, for the record
NameInfo(name) ==
  [callee |-> <<"name", name>>, args |-> <<>>, base |-> 0, depth |-> 0]

opGetGlobal(m, name) ==
  LET globals == m.modules[currentModule(m)].globals
  IN  IF ~tableHas(globals, name)
      THEN throwOrFail(m, UndefinedVariableException)
      ELSE continue(push(m, tableGet(globals, name)))

OP_GET_GLOBAL(name) ==
  /\ Running /\ CanFetch(2)
  /\ Commit(opGetGlobal(fetch(VM, 2), name), "OP_GET_GLOBAL",
            NameInfo(name))

opDefineGlobal(m, name) ==
  continue(pop([m EXCEPT !.modules[currentModule(m)].globals =
                           tablePut(@, name, peek(m, 0))]))

OP_DEFINE_GLOBAL(name) ==
  /\ Running /\ CanFetch(2)
  /\ Len(stack) > CurrentFrame.slots + 1
  /\ TopNotCaptured(1)
  /\ Commit(opDefineGlobal(fetch(VM, 2), name), "OP_DEFINE_GLOBAL",
            NameInfo(name))

\* tableSet says the key is new: the entry is deleted again and the
\* variable reported as undefined
opSetGlobal(m, name) ==
  IF ~tableHas(m.modules[currentModule(m)].globals, name)
  THEN throwOrFail([m EXCEPT !.modules[currentModule(m)].globals =
                      tableRemove(tablePut(@, name, peek(m, 0)), name)],
                   UndefinedVariableException)
  ELSE continue([m EXCEPT !.modules[currentModule(m)].globals =
                            tablePut(@, name, peek(m, 0))])

OP_SET_GLOBAL(name) ==
  /\ Running /\ CanFetch(2)
  /\ Len(stack) > CurrentFrame.slots + 1
  /\ Commit(opSetGlobal(fetch(VM, 2), name), "OP_SET_GLOBAL",
            NameInfo(name))

opExport(m, name) ==
  continue(pop([m EXCEPT !.modules[currentModule(m)].exports =
                           tablePut(@, name, peek(m, 0))]))

OP_EXPORT(name) ==
  /\ Running /\ CanFetch(2)
  /\ Len(stack) > CurrentFrame.slots + 1
  /\ TopNotCaptured(1)
  /\ Commit(opExport(fetch(VM, 2), name), "OP_EXPORT", NameInfo(name))


\* an outcome of using an index that was never written: the access lands
\* on some unrelated cell, the process dies, or the stale bytes happen to
\* be 0 and the access lands on the first element
UninitOutcomes == {"stray", "crash", "first"}

\* validateListIndex: the machine afterwards, the bool returned and *dest
\* (-1 while *dest has not been written).  A negative `index' stands for
\* the uintmax_t value 2^64 + index, which exceeds every length.
\* validateListIndex has raised: the bool of the raise is returned
invalid(t) == [m |-> t.m, ret |-> t.ok, dest |-> -1]

validateListIndex(m, listLength, indexVal) ==
  IF ~IS_NUMBER(indexVal)
  THEN invalid(throwException(m, TypeException))
  ELSE LET indexSigned == AS_NUMBER(indexVal)
           index == IF indexSigned < 0 THEN listLength + indexSigned
                    ELSE indexSigned
       IN  IF index < 0 \/ index >= listLength
           THEN invalid(throwException(m, IndexException))
           ELSE [m |-> m, ret |-> TRUE, dest |-> index]

opGetIndex(m, u) ==
  IF IS_LIST(peek(m, 1))
  THEN LET indexVal == popValue(m)
           list == AS_OBJ(peek(m, 1))
           m2 == pop(pop(m))
           v == validateListIndex(m2, Len(m2.lists[list]), indexVal)
       IN  IF ~v.ret THEN [m |-> v.m, res |-> INTERPRETER_RUNTIME_ERR]
           ELSE IF v.dest = -1
           THEN IF u = "crash" THEN continue([v.m EXCEPT !.crashed = TRUE])
                ELSE IF u = "first" /\ Len(m2.lists[list]) > 0
                THEN continue(push(v.m, m2.lists[list][1]))
                ELSE continue(push(v.m, GARBAGE_VAL))
           ELSE continue(push(v.m, m2.lists[list][v.dest + 1]))
  ELSE IF IS_STRING(peek(m, 1))
  THEN LET indexVal == popValue(m)
           string == AS_OBJ(peek(m, 1))
           m2 == pop(pop(m))
           v == validateListIndex(m2, Len(m2.strObjs[string].chars), indexVal)
       IN  IF ~v.ret THEN [m |-> v.m, res |-> INTERPRETER_RUNTIME_ERR]
           ELSE IF v.dest = -1
           THEN IF u = "crash" THEN continue([v.m EXCEPT !.crashed = TRUE])
                ELSE continue(push(v.m, GARBAGE_VAL))
           ELSE LET c == copyString(v.m.strObjs, v.m.strings,
                                    <<m2.strObjs[string].chars[v.dest + 1]>>)
                IN  continue(push([v.m EXCEPT !.strObjs = c.objs,
                                              !.strings = c.table],
                                  STRING_VAL(c.string)))
  ELSE throwOrFail(m, TypeException)

\* instance receivers (field tables) are left to the property claims
OP_GET_INDEX(u) ==
  /\ Running /\ CanFetch(1)
  /\ Len(stack) > CurrentFrame.slots + 2
  /\ TopNotCaptured(2)
  /\ ~IS_INSTANCE(peek(VM, 1))
  /\ Commit(opGetIndex(fetch(VM, 1), u), "OP_GET_INDEX", NoCall)

opSetIndex(m, u) ==
  IF IS_LIST(peek(m, 2))
  THEN LET value == popValue(m)
           indexVal == peek(m, 1)
           list == AS_OBJ(peek(m, 2))
           m3 == pop(pop(pop(m)))
           v == validateListIndex(m3, Len(m3.lists[list]), indexVal)
       IN  IF ~v.ret THEN [m |-> v.m, res |-> INTERPRETER_RUNTIME_ERR]
           ELSE IF v.dest = -1
           THEN IF u = "crash" THEN continue([v.m EXCEPT !.crashed = TRUE])
                ELSE IF u = "first" /\ Len(m3.lists[list]) > 0
                THEN continue(push([v.m EXCEPT !.lists[list][1] = value],
                                   value))
                ELSE continue(push(v.m, value))
           ELSE continue(push([v.m EXCEPT !.lists[list][v.dest + 1] = value],
                              value))
  ELSE throwOrFail(m, TypeException)

OP_SET_INDEX(u) ==
  /\ Running /\ CanFetch(1)
  /\ Len(stack) > CurrentFrame.slots + 3
  /\ TopNotCaptured(3)
  /\ ~IS_INSTANCE(peek(VM, 2))
  /\ Commit(opSetIndex(fetch(VM, 1), u), "OP_SET_INDEX", NoCall)

\* instance->fields, instance->klass
fieldsOf(m, instance) ==
  IF Len(instance) = 3 THEN m.instances[instance[3]].fields ELSE NoEntries
klassOf(instance) == AS_OBJ(instance)

\* `native->isBound = true; native->bound = receiver'
bindNative(m, native, receiver) == [m EXCEPT !.natives[native] = receiver]

\* bindMethod; a native among the methods is bound to the instance and
\* handed out itself
bindMethod(m, klass, name) ==
  LET methods == m.classes[klass].methods IN
  IF ~tableHas(methods, name) THEN throwException(m, PropertyException)
  ELSE LET method == tableGet(methods, name)
       IN  IF IS_NATIVE(method)
           THEN [m |-> push(pop(bindNative(m, AS_OBJ(method), peek(m, 0))),
                            method),
                 ok |-> TRUE]
           ELSE [m |-> push(pop(m), newBoundMethod(peek(m, 0),
                                                   AS_OBJ(method))),
                 ok |-> TRUE]

\* `return throwException(...)' in fetchExecute: the bool is the result
asResult(t) == [m |-> t.m, res |-> BoolAsResult(t.ok)]

\* OP_GET_PROPERTY; in the branches for lists and strings
\* `return throwException(...)' hands the bool back as the result
opGetProperty(m, name) ==
  IF IS_LIST(peek(m, 0))
  THEN IF listMethods(name) = 0
       THEN asResult(throwException(m, PropertyException))
       ELSE continue(push(pop(bindNative(m, listMethods(name), peek(m, 0))),
                          NATIVE_VAL(listMethods(name))))
  ELSE IF IS_STRING(peek(m, 0))
  THEN IF stringMethods(name) = 0
       THEN asResult(throwException(m, PropertyException))
       ELSE continue(push(pop(bindNative(m, stringMethods(name),
                                         peek(m, 0))),
                          NATIVE_VAL(stringMethods(name))))
  ELSE IF ~IS_INSTANCE(peek(m, 0)) THEN throwOrFail(m, TypeException)
  ELSE IF tableHas(fieldsOf(m, peek(m, 0)), name)
  THEN continue(push(pop(m), tableGet(fieldsOf(m, peek(m, 0)), name)))
  ELSE orFail(bindMethod(m, klassOf(peek(m, 0)), name))

OP_GET_PROPERTY(name) ==
  /\ Running /\ CanFetch(2)
  /\ Len(stack) > CurrentFrame.slots + 1
  /\ TopNotCaptured(1)
  /\ Commit(opGetProperty(fetch(VM, 2), name), "OP_GET_PROPERTY", NoCall)

opNegate(m) ==
  IF ~IS_NUMBER(peek(m, 0)) THEN throwOrFail(m, TypeException)
  ELSE continue(push(pop(m), NUMBER_VAL(0 - AS_NUMBER(peek(m, 0)))))

OP_NEGATE ==
  /\ Running /\ CanFetch(1)
  /\ Len(stack) > CurrentFrame.slots + 1
  /\ TopNotCaptured(1)
  /\ Commit(opNegate(fetch(VM, 1)), "OP_NEGATE", NoCall)

\* BINARY_OP(NUMBER_VAL, -)
opSub(m) ==
  IF ~IS_NUMBER(peek(m, 0)) \/ ~IS_NUMBER(peek(m, 1))
  THEN throwOrFail(pop(pop(m)), TypeException)
  ELSE continue(push(pop(pop(m)),
                     NUMBER_VAL(AS_NUMBER(peek(m, 1)) - AS_NUMBER(peek(m, 0)))))

OP_SUB ==
  /\ Running /\ CanFetch(1)
  /\ Len(stack) > CurrentFrame.slots + 2
  /\ TopNotCaptured(2)
  /\ Commit(opSub(fetch(VM, 1)), "OP_SUB", NoCall)


\* the arguments of a call as the caller passed them, for the record
CallInfo(m, argCount) ==
  [callee |-> peek(m, argCount),
   args |-> [i \in 1..argCount |-> peek(m, argCount - i)],
   base |-> Len(m.stack) - argCount - 1,
   depth |-> Len(m.frames)]

opCall(m, argCount) == orFail(callValue(m, peek(m, argCount), argCount, 0))

\* calls of natives are the actions CallNative below
opThrow(m) ==
  LET throwee == peek(m, 0) IN
  IF ~IS_INSTANCE(throwee) THEN throwOrFail(m, TypeException)
  ELSE IF ~instanceof(m, AS_OBJ(throwee), m.exceptionClass)
       THEN throwOrFail(m, TypeException)
       ELSE orFail(throwGeneral(m, throwee))

OP_THROW ==
  /\ Running /\ CanFetch(1)
  /\ Len(stack) > CurrentFrame.slots + 1
  /\ TopNotCaptured(1)
  /\ Commit(opThrow(fetch(VM, 1)), "OP_THROW", NoCall)

opTryBegin(m, catchLocation) ==
  continue([m EXCEPT !.frames[Len(m.frames)].isTry = TRUE,
                     !.frames[Len(m.frames)].catchJump =
                        m.frames[Len(m.frames)].ip + catchLocation])

OP_TRY_BEGIN(catchLocation) ==
  /\ Running /\ CanFetch(3)
  /\ chunk = <<>> => CurrentFrame.ip + 3 + catchLocation <= CodeLen
  /\ Commit(opTryBegin(fetch(VM, 3), catchLocation), "OP_TRY_BEGIN", NoCall)

opTryEnd(m) == continue([m EXCEPT !.frames[Len(m.frames)].isTry = FALSE])

OP_TRY_END ==
  /\ Running /\ CanFetch(1)
  /\ Commit(opTryEnd(fetch(VM, 1)), "OP_TRY_END", NoCall)

(***************************************************************************)
(* Natives that call back into the interpreter (src/src/natives.c,          *)
(* src/src/list.c).  A native that is waiting in runFunction for the        *)
(* closure it called is a record on nativeCalls: the list it walks, the     *)
(* index i of its loop, args (the address of its first argument), its own   *)
(* argCount, and, of the call it is waiting for, the callee, *argsUsed,     *)
(* entry, the frame count when callDragonFromNative was entered, and        *)
(* height, that of the stack before the native pushed the arguments.        *)
(***************************************************************************)
nativeArity(native) ==
  IF native = NativeForEach \/ native = NativeIteratorConstructor THEN 1
  ELSE 0

\* callValue, OBJ_NATIVE, after the native has returned:
\* `vm->stackTop -= argCount + 1; push(vm, result)'
nativeReturn(m, argCount, value) ==
  push(setStackTop(m, stackTop(m) - (argCount + 1)), value)

\* listForEachNative from the head of its loop, up to the point where it
\* either waits in runFunction (callDragonFromNative has pushed the frame of
\* the callback) or returns to callValue.  callDragonFromNative ignores what
\* callValue returns.  Natives as callbacks are not covered: no instruction
\* of the model leaves one where the callback is read.
\* the callback has been called through callDragonFromNative, which
\* records *argsUsed
calledBack(c, rest, nc) ==
  [m |-> c.m, res |-> INTERPRETER_CONTINUE,
   nativeCalls |-> Append(rest, [nc EXCEPT !.argsUsed = c.argsUsed])]

listForEachNative(m, rest, nc) ==
  IF nc.i < Len(m.lists[nc.list])
  THEN LET m1 == push(push(push(m, m.lists[nc.list][nc.i + 1]),
                           NUMBER_VAL(nc.i)),
                      LIST_VAL(nc.list))
           callee == stackAt(m1, nc.args)
       IN  calledBack(callValue(m1, callee, 3, 3), rest,
                      [nc EXCEPT !.callee = callee,
                                 !.entry = frameCount(m1),
                                 !.height = Len(m.stack)])
  ELSE [m |-> nativeReturn(m, nc.argCount, NULL_VAL),
        res |-> INTERPRETER_CONTINUE, nativeCalls |-> rest]

\* runFunction has received INTERPRETER_OK: it pops the value,
\* callDragonFromNative pops *argsUsed values, and the native goes on
callDragonFromNative(m, argsUsed) == popTimes(pop(m), argsUsed)

nativeResume(m, ncs) ==
  LET nc == ncs[Len(ncs)]
      rest == SubSeq(ncs, 1, Len(ncs) - 1)
      m1 == callDragonFromNative(m, nc.argsUsed)
  IN  listForEachNative(m1, rest, [nc EXCEPT !.i = @ + 1])

\* a bool the callee returned, as invoke hands it to OP_INVOKE
invoked(t, ncs) ==
  [m |-> t.m,
   res |-> IF t.ok THEN INTERPRETER_CONTINUE ELSE INTERPRETER_RUNTIME_ERR,
   nativeCalls |-> ncs]

\* iteratorConstructorNative: the fields it sets
iteratorFields(data) ==
  tablePut(tablePut(NoEntries, "index", NUMBER_VAL(0)), "data", data)

\* listIteratorNative: the instance, and the list it pushes and leaves
listIteratorNative(m, bound) ==
  LET i == newInstance(m, IteratorClass, iteratorFields(bound))
  IN  [m |-> push(i.m, bound), value |-> i.instance]

\* an iterator over a list whose index is a number in the list or at its
\* end: the only ones the natives below are modelled for
IsListIterator(m, bound) ==
  /\ IS_INSTANCE(bound) /\ Len(bound) = 3
  /\ tableHas(fieldsOf(m, bound), "index")
  /\ tableHas(fieldsOf(m, bound), "data")
  /\ IS_LIST(tableGet(fieldsOf(m, bound), "data"))
  /\ IS_NUMBER(tableGet(fieldsOf(m, bound), "index"))
  /\ isInteger(tableGet(fieldsOf(m, bound), "index"))
  /\ AS_NUMBER(tableGet(fieldsOf(m, bound), "index")) >= 0

iteratorIndex(m, bound) == AS_NUMBER(tableGet(fieldsOf(m, bound), "index"))
iteratorData(m, bound) ==
  m.lists[AS_OBJ(tableGet(fieldsOf(m, bound), "data"))]

\* iteratorMoreNative
iteratorMoreNative(m, bound) ==
  [m |-> m,
   value |-> BOOL_VAL(iteratorIndex(m, bound) < Len(iteratorData(m, bound)))]

\* iteratorNextNative: the item at the index, null past the end, and the
\* index moved on
iteratorNextNative(m, bound) ==
  LET index == iteratorIndex(m, bound)
      data == iteratorData(m, bound)
  IN  [m |-> [m EXCEPT !.instances[bound[3]].fields =
                         tablePut(@, "index", NUMBER_VAL(index + 1))],
       value |-> IF index >= Len(data) THEN NULL_VAL ELSE data[index + 1]]

\* the natives that return a value without calling back
nativeFunction(m, native, bound) ==
  CASE native = NativeLength ->
         [m |-> m, value |-> NUMBER_VAL(Len(m.lists[AS_OBJ(bound)]))]
    [] native = NativeStringLength ->
         [m |-> m, value |-> NUMBER_VAL(Len(m.strObjs[AS_OBJ(bound)].chars))]
    [] native = NativeListIterator -> listIteratorNative(m, bound)
    [] native = NativeIteratorIterator -> [m |-> m, value |-> bound]
    [] native = NativeIteratorMore -> iteratorMoreNative(m, bound)
    [] native = NativeIteratorNext -> iteratorNextNative(m, bound)

\* `vm->stackTop -= argCount + 1; push(vm, result)' once the native is back
nativeReturned(r, argCount, ncs) ==
  [m |-> nativeReturn(r.m, argCount, r.value), res |-> INTERPRETER_CONTINUE,
   nativeCalls |-> ncs]

\* callValue, OBJ_NATIVE
callNative(m, native, bound, argCount, ncs) ==
  IF argCount # nativeArity(native)
  THEN invoked(throwException(pop(m), ArityException), ncs)
  ELSE IF native = NativeForEach
  THEN listForEachNative(m, ncs,
         [kind |-> "forEach",
          list |-> AS_OBJ(bound), i |-> 0, args |-> stackTop(m) - argCount,
          argCount |-> argCount, callee |-> NULL_VAL, argsUsed |-> 0,
          entry |-> 0, height |-> 0])
  ELSE nativeReturned(nativeFunction(m, native, bound), argCount, ncs)

invokeFromClass(m, instance, klass, name, argCount, ncs) ==
  LET methods == m.classes[klass].methods IN
  IF ~tableHas(methods, name)
  THEN invoked(throwException(pop(pop(m)), PropertyException), ncs)
  ELSE LET method == tableGet(methods, name) IN
       IF IS_NATIVE(method)
       THEN callNative(bindNative(m, AS_OBJ(method), instance),
                       AS_OBJ(method), instance, argCount, ncs)
       ELSE invoked(call(m, AS_OBJ(method), argCount, 0), ncs)

\* invoke; a field is called by callValue
invoke(m, name, argCount, ncs) ==
  LET receiver == peek(m, argCount)
      method == IF IS_LIST(receiver) THEN listMethods(name)
                ELSE stringMethods(name)
  IN  IF IS_LIST(receiver) \/ IS_STRING(receiver)
      THEN IF method = 0
           THEN invoked(throwException(m, PropertyException), ncs)
           ELSE callNative(bindNative(m, method, receiver), method, receiver,
                           argCount, ncs)
      ELSE IF ~IS_INSTANCE(receiver)
      THEN invoked(throwException(m, TypeException), ncs)
      ELSE IF tableHas(fieldsOf(m, receiver), name)
      THEN LET value == tableGet(fieldsOf(m, receiver), name)
           IN  invoked(callValue(setCalleeSlot(m, argCount, value), value,
                                 argCount, 0), ncs)
      ELSE invokeFromClass(m, receiver, klassOf(receiver), name, argCount,
                           ncs)

\* the property the instruction finds in an instance: a field, else a
\* method of its class, else nothing
propertyOf(m, instance, name) ==
  IF tableHas(fieldsOf(m, instance), name)
  THEN tableGet(fieldsOf(m, instance), name)
  ELSE IF tableHas(m.classes[klassOf(instance)].methods, name)
  THEN tableGet(m.classes[klassOf(instance)].methods, name)
  ELSE NULL_VAL

\* the natives that wait for a callback, as the instruction leaves them
withNativeCalls(r) ==
  [m |-> [r.m EXCEPT !.nativeCalls = r.nativeCalls], res |-> r.res]

\* the natives that a call of their value is modelled for: the lengths,
\* bound to a value that has one
CallableNative(v) ==
  \/ AS_OBJ(v) = NativeLength /\ IS_LIST(natives[AS_OBJ(v)])
  \/ AS_OBJ(v) = NativeStringLength /\ IS_STRING(natives[AS_OBJ(v)])

\* OP_CALL; callValue hands a native the value it is bound to
OP_CALL(argCount) ==
  /\ Running /\ CanFetch(2)
  /\ Len(stack) > CurrentFrame.slots + argCount + 1
  /\ TopNotCaptured(argCount + 1)
  /\ IS_NATIVE(peek(VM, argCount)) => CallableNative(peek(VM, argCount))
  /\ \E moves \in BOOLEAN :
       IF IS_NATIVE(peek(VM, argCount))
       THEN Commit(withNativeCalls(
                     callNative(fetch(VM, 2), AS_OBJ(peek(VM, argCount)),
                                natives[AS_OBJ(peek(VM, argCount))],
                                argCount, nativeCalls)),
                   "OP_CALL", CallInfo(VM, argCount))
       ELSE Commit(opCall([fetch(VM, 2) EXCEPT !.reallocMoves = moves],
                          argCount),
                   "OP_CALL", CallInfo(VM, argCount))

\* the natives of Object are in the method tables; what they compute when
\* called is not modelled, and the programs call none.  Those of Iterator
\* are called on the iterators that the natives are modelled for.
OP_INVOKE(name, argCount) ==
  /\ Running /\ CanFetch(3)
  /\ Len(stack) > CurrentFrame.slots + argCount + 1
  /\ TopNotCaptured(argCount + 1)
  /\ IS_INSTANCE(peek(VM, argCount))
       => \/ ~IS_NATIVE(propertyOf(VM, peek(VM, argCount), name))
          \/ /\ ~tableHas(fieldsOf(VM, peek(VM, argCount)), name)
             /\ name \in {"iterator", "next", "more"}
             /\ IsListIterator(VM, peek(VM, argCount))
             /\ propertyOf(VM, peek(VM, argCount), name)
                  = IteratorMethods[name]
  /\ Commit(withNativeCalls(invoke(fetch(VM, 3), name, argCount,
                                   nativeCalls)),
            "OP_INVOKE", CallInfo(VM, argCount))

\* OP_RETURN; baseFrameCount is what fetchExecute computed on entry, that
\* is, at the start of this very instruction
opReturn(m, isFunctionCall) ==
  LET frame == m.frames[Len(m.frames)]
      baseFrameCount == frameCount(m) - 1
      value == popValue(m)
      m1 == closeUpvalues(pop(m), frame.slots)
      m2 == [m1 EXCEPT !.frames = SubSeq(@, 1, Len(@) - 1)]
  IN  IF (isFunctionCall /\ frameCount(m2) = baseFrameCount)
           \/ frameCount(m2) = 0
      THEN [m |-> IF isFunctionCall THEN push(m2, value) ELSE pop(m2),
            res |-> INTERPRETER_OK]
      ELSE continue(push(setStackTop(m2, frame.slots), value))

OP_RETURN ==
  /\ Running /\ CanFetch(1)
  /\ Len(stack) > CurrentFrame.slots + 1
  /\ TopNotCaptured(1)
  /\ LET isFunctionCall == nativeCalls # <<>>
         r == opReturn(fetch(VM, 1), isFunctionCall)
     IN  IF /\ isFunctionCall /\ r.res = INTERPRETER_OK
            /\ nativeCalls[Len(nativeCalls)].kind = "forEach"
         THEN LET n == nativeResume(r.m, nativeCalls)
              IN  Commit([m |-> [n.m EXCEPT !.nativeCalls = n.nativeCalls],
                          res |-> n.res],
                         "OP_RETURN",
                         [callee |-> CLOSURE_VAL(CurrentFrame.closure),
                          args |-> <<popValue(r.m)>>,
                          base |-> nativeCalls[Len(nativeCalls)].entry,
                          depth |-> frameCount(r.m)])
         ELSE Commit(r, "OP_RETURN", NoCall)


newClosure(m, owner, function) ==
  [m |-> [m EXCEPT !.closures =
                     Append(@, [function |-> function, upvalues |-> <<>>,
                                captured |-> <<>>, owner |-> owner])],
   closure |-> Len(m.closures) + 1]

\* the local that lives in the stack cell at address a: the address and the
\* number of locals of that cell whose upvalue has been closed.  Part of the
\* record kept for the claims (closure.captured), not of the program.
LocalAt(m, a) ==
  <<a, Cardinality({u \in 1..Len(m.upvalues) :
                      m.upvalues[u].slot = a /\ m.upvalues[u].location = -1})>>

\* the loop of OP_CLOSURE over the <<isLocal, index>> pairs that follow it
RECURSIVE captureAll(_, _, _, _, _)
captureAll(m, closure, frame, caps, i) ==
  IF i > Len(caps) THEN m
  ELSE IF caps[i][1]
  THEN LET c == captureUpvalue(m, frame.slots + caps[i][2])
       IN  captureAll([c.m EXCEPT !.closures[closure].upvalues =
                                     Append(@, c.upvalue),
                                  !.closures[closure].captured =
                                     Append(@, LocalAt(m, frame.slots + caps[i][2]))],
                      closure, frame, caps, i + 1)
  ELSE captureAll([m EXCEPT !.closures[closure].upvalues =
                     Append(@, m.closures[frame.closure].upvalues[caps[i][2] + 1]),
                            !.closures[closure].captured =
                     Append(@, m.closures[frame.closure].captured[caps[i][2] + 1])],
                  closure, frame, caps, i + 1)

opClosure(m, function, caps) ==
  LET frame == m.frames[Len(m.frames)]
      c == newClosure(m, currentModule(m), function)
  IN  continue(captureAll(push(c.m, CLOSURE_VAL(c.closure)), c.closure,
                          frame, caps, 1))

MaxClosures == 3

\* the pairs name a local of the frame or an upvalue of its closure
CapsOk(caps) ==
  \A i \in 1..Len(caps) :
    IF caps[i][1]
    THEN CurrentFrame.slots + caps[i][2] < Len(stack)
    ELSE caps[i][2] < Len(closures[CurrentFrame.closure].upvalues)

OP_CLOSURE(function, caps) ==
  /\ Running /\ CanFetch(2 + 2 * Len(caps))
  /\ Len(caps) = function.upvalueCount
  /\ CapsOk(caps)
  /\ Commit(opClosure(fetch(VM, 2 + 2 * Len(caps)), function, caps),
            "OP_CLOSURE", NoCall)

(***************************************************************************)
(* Modules (src/src/vm.c, OP_IMPORT; src/unnamed/part_008).  Every source  *)
(* file compiles; the top-level code of a module is, like all code of the  *)
(* model, whatever instructions are executed in its frame.                 *)
(***************************************************************************)
opImport(m, path) ==
  IF tableHas(m.importTable, path)
  THEN continue(push(m, tableGet(m.importTable, path)))
  ELSE LET m1 == initModule(m, path)
           importModule == Len(m1.modules)
           c == newClosure(m1, importModule, ScriptFunction)
           m2 == push(c.m, CLOSURE_VAL(c.closure))
           \* callDragonFromNative: what callValue returns is ignored
           v == callValue(m2, CLOSURE_VAL(c.closure), 0, 0)
       IN  continue([v.m EXCEPT !.nativeCalls =
                       Append(@, [kind |-> "import", path |-> path,
                                  module |-> importModule,
                                  callee |-> CLOSURE_VAL(c.closure),
                                  argsUsed |-> v.argsUsed,
                                  entry |-> frameCount(m2)])])

OP_IMPORT(path) ==
  /\ Running /\ CanFetch(2)
  /\ Commit(opImport(fetch(VM, 2), path), "OP_IMPORT",
            [callee |-> <<"path", path>>, args |-> <<>>,
             base |-> Len(modules), depth |-> Len(frames)])

\* fetchExecute entered with no frame left: frame is &vm->frames[-1], and
\* what is decoded there is anything
FetchNoFrame ==
  /\ result = INTERPRETER_CONTINUE /\ ~crashed /\ frames = <<>>
  /\ crashed' = TRUE
  /\ lastOp' = "fetchExecute"
  /\ UNCHANGED <<frames, stack, openUpvalues, upvalues, closures, lists,
                 strObjs, strings, frameSize, stackSize, stackStorage,
                 result, raised,
                 nativeCalls, callInfo, modules, classes, instances, natives,
                 exceptionClass, importTable, chunk, source, tables,
                 contents, answer, shouldGC, building>>

(***************************************************************************)
(* The state after initVM and interpret: the script's closure in slot 0     *)
(* and its frame; the strings of the chunk's constant pool interned.        *)
(***************************************************************************)
RECURSIVE internAll(_, _, _)
internAll(objs, table, strs) ==
  IF strs = <<>> THEN [objs |-> objs, table |-> table]
  ELSE LET c == copyString(objs, table, Head(strs))
       IN  internAll(c.objs, c.table, Tail(strs))

ScriptFrame ==
  [closure |-> 1, ip |-> 0, slots |-> 0, isTry |-> FALSE, catchJump |-> 0,
   storage |-> 0]

ScriptClosure ==
  [function |-> ScriptFunction, upvalues |-> <<>>, captured |-> <<>>,
   owner |-> 1]

\* neither interpret nor OP_IMPORT is at work on a module
NotBuilding ==
  [routine |-> "none", pc |-> 0, compiler |-> <<"none">>, objects |-> {},
   freed |-> {}, held |-> <<>>, linked |-> FALSE, globals |-> {},
   keys |-> 0, count |-> 0, capacity |-> 0, called |-> FALSE]

\* the machine with the given frames, stack, heap and code, nothing raised
\* yet
InitCode(fs, st, cls, ls, constantStrings, code, tree) ==
  /\ chunk = code
  /\ source = tree
  /\ frames = fs
  /\ stack = st
  /\ openUpvalues = 0
  /\ upvalues = <<>>
  /\ closures = cls
  /\ lists = ls
  /\ strObjs = internAll(<<>>, initTable, constantStrings).objs
  /\ strings = internAll(<<>>, initTable, constantStrings).table
  /\ frameSize = InitialFrameSize
  /\ stackSize = StackPerFrame * InitialFrameSize
  /\ stackStorage = 0
  /\ result = INTERPRETER_CONTINUE
  /\ crashed = FALSE
  /\ raised = NoException
  /\ lastOp = "interpret"
  /\ nativeCalls = <<>>
  /\ callInfo = NoCall
  /\ modules = <<MainModule>>
  /\ classes = MainClasses
  /\ instances = <<>>
  /\ natives = [native \in 1..NativeIteratorMore |-> Unbound]
  /\ exceptionClass = ExceptionClass
  /\ importTable = NoEntries
  /\ tables = <<initTable, initTable>>
  /\ contents = <<NoEntries, NoEntries>>
  /\ answer = FALSE
  /\ shouldGC = TRUE
  /\ building = NotBuilding

\* programs left open: any instruction may be the next
InitWith(fs, st, cls, ls, constantStrings) ==
  InitCode(fs, st, cls, ls, constantStrings, <<>>, <<>>)

InitVM(constantStrings) ==
  InitWith(<<ScriptFrame>>, <<CLOSURE_VAL(1)>>, <<ScriptClosure>>, <<>>,
           constantStrings)

(***************************************************************************)
(* Spec: exceptions.  Programs that raise, catch and propagate.             *)
(***************************************************************************)
Init == InitVM(<< <<97, 98>> >>)

\* the bounds of the model, as guards of the instructions that grow it
StackRoom == Len(stack) < MaxStack
FrameRoom == Len(frames) < MaxDepth
ListRoom == Len(lists) < MaxLists
ClosureRoom == Len(closures) < MaxClosures

Next ==
  \/ \E constant \in {NUMBER_VAL(5), STRING_VAL(1)} :
       StackRoom /\ OP_CONSTANT(constant)
  \/ StackRoom /\ OP_NULL
  \/ OP_POP
  \/ StackRoom /\ ListRoom /\ OP_LIST(0)
  \/ \E name \in {"Exception", "nope"} : StackRoom /\ OP_GET_GLOBAL(name)
  \/ \E u \in UninitOutcomes : OP_GET_INDEX(u)
  \/ \E u \in UninitOutcomes : OP_SET_INDEX(u)
  \/ OP_GET_PROPERTY("nope")
  \/ OP_NEGATE
  \/ OP_SUB
  \/ \E argCount \in 0..1 : FrameRoom /\ OP_CALL(argCount)
  \/ OP_THROW
  \/ \E catchLocation \in 0..(CodeLen - 3) : OP_TRY_BEGIN(catchLocation)
  \/ OP_TRY_END
  \/ OP_RETURN
  \/ StackRoom /\ ClosureRoom /\ OP_CLOSURE(Function(0, FALSE, FALSE, 0), <<>>)

Spec == Init /\ [][Next]_vars


(***************************************************************************)
(* Claims about exceptions.                                                 *)
(***************************************************************************)
\* the depth of the topmost frame that has isTry set, 0 if there is none
RECURSIVE topTryIn(_, _, _)
topTryIn(fs, lo, hi) ==
  IF lo > hi THEN 0
  ELSE IF lo = hi THEN (IF fs[lo].isTry THEN lo ELSE 0)
  ELSE LET mid == (lo + hi) \div 2
           upper == topTryIn(fs, mid + 1, hi)
       IN  IF upper # 0 THEN upper ELSE topTryIn(fs, lo, mid)
TopTry(fs) == topTryIn(fs, 1, Len(fs))

\* the instruction of this step raised an exception while a frame had isTry
RaisedInTry == raised' # NoException /\ TopTry(frames) # 0

\* where a caught exception has to leave the machine
LandsAtCatch ==
  LET d == TopTry(frames) IN
  /\ Len(frames') = d
  /\ frames'[d].ip = frames[d].catchJump
  /\ ~frames'[d].isTry
  /\ ~crashed'
  /\ result' = INTERPRETER_CONTINUE
  /\ Len(stack') > 0
  /\ stack'[Len(stack')] = raised'

\* C1: an exception raised while some frame has is_try set resumes in the
\* topmost such frame at its catch target, frame count restored, is_try
\* cleared, the exception instance on top of the stack; for every raising
\* instruction, GET_INDEX and SET_INDEX included.
C1_CaughtLandsAtCatch == [][RaisedInTry => LandsAtCatch]_vars

\* the same for every instruction but the two index instructions
C1_CaughtLandsAtCatchButIndex ==
  [][(RaisedInTry /\ lastOp' \notin {"OP_GET_INDEX", "OP_SET_INDEX"})
       => LandsAtCatch]_vars

\* C2: an exception raised while no frame has is_try set stops the
\* interpretation with INTERPRETER_RUNTIME_ERR, for every instruction that
\* can raise, GET_PROPERTY of an undefined list or string method included.
C2_UncaughtIsRuntimeErr ==
  [][(raised' # NoException /\ TopTry(frames) = 0)
       => result' = INTERPRETER_RUNTIME_ERR]_vars

C2_UncaughtIsRuntimeErrButProperty ==
  [][(raised' # NoException /\ TopTry(frames) = 0
        /\ lastOp' # "OP_GET_PROPERTY")
       => result' = INTERPRETER_RUNTIME_ERR]_vars

(***************************************************************************)
(* SpecCall: one call.  The callee and its arguments are on the stack of    *)
(* the script's frame, as the instructions before a call site leave them    *)
(* (their bytes are not counted in ip); the call site may lie in a try.     *)
(***************************************************************************)
MaxArity == 2
MaxArgs == 4

CallFunctions ==
  {f \in {Function(arity, varargs, isLambda, 0) :
            arity \in 0..MaxArity, varargs \in BOOLEAN, isLambda \in BOOLEAN} :
     f.varargs => f.arity >= 1}

InitCall ==
  \E function \in CallFunctions, argCount \in 0..MaxArgs, isTry \in BOOLEAN :
    InitWith(<<[ScriptFrame EXCEPT !.isTry = isTry,
                                  !.catchJump = IF isTry THEN CodeLen ELSE 0]>>,
             <<CLOSURE_VAL(1), CLOSURE_VAL(2)>>
               \o [i \in 1..argCount |-> NUMBER_VAL(i)],
             <<ScriptClosure,
               [function |-> function, upvalues |-> <<>>, captured |-> <<>>,
                owner |-> 1]>>,
             <<>>, <<>>)

NextCall == \E argCount \in 0..MaxArgs : OP_CALL(argCount)

SpecCall == InitCall /\ [][NextCall]_vars

\* the last instruction called a closure; its function, declared arity n and
\* the k arguments passed
CalledClosure == lastOp = "OP_CALL" /\ IS_CLOSURE(callInfo.callee)
CalledFunction == closures[AS_OBJ(callInfo.callee)].function
TopFrame == frames[Len(frames)]

\* a frame was pushed for the call, slot 0 on the callee's cell
FramePushed ==
  /\ ~crashed
  /\ raised = NoException
  /\ result = INTERPRETER_CONTINUE
  /\ Len(frames) = callInfo.depth + 1
  /\ TopFrame.closure = AS_OBJ(callInfo.callee)
  /\ TopFrame.slots = callInfo.base
  /\ TopFrame.slots < Len(stack)
  /\ stack[TopFrame.slots + 1] = callInfo.callee

\* parameter i of the new frame
Param(i) == stackAt(VM, TopFrame.slots + i)

\* ArityException was raised and no frame was pushed
ArityRaised ==
  /\ raised = INST_VAL(ArityException)
  /\ Len(frames) <= callInfo.depth
  /\ ~crashed

\* argument i, or null past the last one
ArgOrNull(i) ==
  IF i <= Len(callInfo.args) THEN callInfo.args[i] ELSE NULL_VAL

\* C4: a varargs closure of arity n called with k arguments: with k >= n-1
\* parameters 1..n-1 are the first n-1 arguments and parameter n is a new
\* list of the remaining ones in call order; with k < n-1 a non-lambda
\* raises ArityException and a lambda has the missing parameters null.
C4_VarargsBinding ==
  (CalledClosure /\ CalledFunction.varargs) =>
    LET n == CalledFunction.arity
        k == Len(callInfo.args)
    IN  IF k < n - 1 /\ ~CalledFunction.isLambda
        THEN ArityRaised
        ELSE /\ FramePushed
             /\ Len(stack) = TopFrame.slots + n + 1
             /\ \A i \in 1..(n - 1) : Param(i) = ArgOrNull(i)
             /\ IS_LIST(Param(n))
             /\ lists[AS_OBJ(Param(n))] = SubSeq(callInfo.args, n, k)

\* the same when the varargs parameter is the only parameter
C4_VarargsBindingSoleParameter ==
  (CalledClosure /\ CalledFunction.varargs /\ CalledFunction.arity = 1) =>
    /\ FramePushed
    /\ Len(stack) = TopFrame.slots + 2
    /\ IS_LIST(Param(1))
    /\ lists[AS_OBJ(Param(1))] = callInfo.args

\* C5: a non-varargs closure of arity n called with k arguments: a plain
\* function with k # n raises ArityException and pushes no frame; a lambda
\* gets a frame whose parameters 1..n are the first min(k,n) arguments and
\* then nulls, the surplus dropped; the frame of every successful call has
\* the callee's cell as slot 0, directly below parameter 1.  (The call is
\* made below the cap on frames, which is C6's case.)
C5_PlainAndLambdaBinding ==
  (CalledClosure /\ ~CalledFunction.varargs /\ callInfo.depth < FRAMES_MAX) =>
    LET n == CalledFunction.arity
        k == Len(callInfo.args)
    IN  IF k # n /\ ~CalledFunction.isLambda
        THEN ArityRaised
        ELSE /\ FramePushed
             /\ Len(stack) = TopFrame.slots + n + 1
             /\ \A i \in 1..n : Param(i) = ArgOrNull(i)

\* a lambda of two parameters was called with four arguments and has its
\* frame
C5_LambdaSurplusCalled ==
  /\ CalledClosure /\ ~CalledFunction.varargs /\ CalledFunction.isLambda
  /\ CalledFunction.arity = 2 /\ Len(callInfo.args) = 4
  /\ Len(frames) = 2

(***************************************************************************)
(* Locals and upvalues of the current frame.                                *)
(***************************************************************************)
opGetLocal(m, slot) ==
  continue(push(m, stackAt(m, m.frames[Len(m.frames)].slots + slot)))

OP_GET_LOCAL(slot) ==
  /\ Running /\ CanFetch(2)
  /\ CurrentFrame.slots + slot < Len(stack)
  /\ Commit(opGetLocal(fetch(VM, 2), slot), "OP_GET_LOCAL", NoCall)

opSetLocal(m, slot) ==
  continue([m EXCEPT !.stack[m.frames[Len(m.frames)].slots + slot + 1] =
                        peek(m, 0)])

OP_SET_LOCAL(slot) ==
  /\ Running /\ CanFetch(2)
  /\ CurrentFrame.slots + slot < Len(stack)
  /\ Commit(opSetLocal(fetch(VM, 2), slot), "OP_SET_LOCAL", NoCall)

opGetUpvalue(m, slot) ==
  LET frame == m.frames[Len(m.frames)]
  IN  continue(push(m, readUpvalue(m, m.closures[frame.closure].upvalues[slot + 1])))

OP_GET_UPVALUE(slot) ==
  /\ Running /\ CanFetch(2)
  /\ slot < Len(closures[CurrentFrame.closure].upvalues)
  /\ Commit(opGetUpvalue(fetch(VM, 2), slot), "OP_GET_UPVALUE", NoCall)

opSetUpvalue(m, slot) ==
  LET frame == m.frames[Len(m.frames)]
  IN  continue(writeUpvalue(m, m.closures[frame.closure].upvalues[slot + 1],
                            peek(m, 0)))

OP_SET_UPVALUE(slot) ==
  /\ Running /\ CanFetch(2)
  /\ slot < Len(closures[CurrentFrame.closure].upvalues)
  /\ Len(stack) > CurrentFrame.slots + 1
  /\ Commit(opSetUpvalue(fetch(VM, 2), slot), "OP_SET_UPVALUE", NoCall)

opCloseUpvalue(m) == continue(pop(closeUpvalues(m, stackTop(m) - 1)))

OP_CLOSE_UPVALUE ==
  /\ Running /\ CanFetch(1)
  /\ Len(stack) > CurrentFrame.slots + 1
  /\ Commit(opCloseUpvalue(fetch(VM, 1)), "OP_CLOSE_UPVALUE", NoCall)

(***************************************************************************)
(* SpecDeep: unbounded recursion.  Every function calls what its slot 0     *)
(* holds, its own closure; the script may do so inside a try.               *)
(***************************************************************************)
InitDeep == InitVM(<<>>)

NextDeep ==
  \/ Len(frames) = 1 /\ CurrentFrame.ip = 0 /\ OP_TRY_BEGIN(4)
  \/ Running /\ Len(stack) = CurrentFrame.slots + 1 /\ OP_GET_LOCAL(0)
  \/ OP_CALL(0)

SpecDeep == InitDeep /\ [][NextDeep]_vars

\* a closure is called with the arguments it takes while FRAMES_MAX frames
\* are active
CallAtCap ==
  /\ lastOp' = "OP_CALL"
  /\ Len(frames) = FRAMES_MAX
  /\ IS_CLOSURE(callInfo'.callee)
  /\ closures[AS_OBJ(callInfo'.callee)].function.arity = Len(callInfo'.args)

\* C6: the number of call frames never exceeds 1024; a call made while 1024
\* frames are active raises StackOverflowException and pushes no frame, and
\* the exception is caught by a frame that has is_try set like any other.
C6_FrameCap ==
  [][/\ Len(frames') <= FRAMES_MAX
     /\ CallAtCap =>
          /\ raised' = INST_VAL(StackOverflowException)
          /\ Len(frames') <= Len(frames)
          /\ IF TopTry(frames) # 0 THEN LandsAtCatch
             ELSE result' = INTERPRETER_RUNTIME_ERR]_vars

\* the overflow of a recursion begun inside a try was caught by the script
C6_OverflowCaught ==
  /\ raised = INST_VAL(StackOverflowException)
  /\ Len(frames) = 1
  /\ result = INTERPRETER_CONTINUE
  /\ stack[Len(stack)] = INST_VAL(StackOverflowException)

(***************************************************************************)
(* SpecCap and SpecUpv: closures and their upvalues.  The script starts     *)
(* with its locals declared; functions are created with captures of locals  *)
(* and of upvalues of the enclosing closure, called, returned from and      *)
(* unwound.  SpecCap makes and drops closures; SpecUpv also reads and       *)
(* writes through them.                                                     *)
(***************************************************************************)
MaxCaps == 2
CapStack == 4
CapHeap == 5
UpvStack == 3
UpvHeap == 4

\* the captures of one OP_CLOSURE: <<isLocal, index>> pairs
CapPairs == {<<TRUE, 0>>, <<TRUE, 1>>, <<FALSE, 0>>}
Caps == UNION {[1..n -> CapPairs] : n \in 0..MaxCaps}

InitUpv ==
  \E nLocals \in 0..1 :
    InitWith(<<ScriptFrame>>,
             <<CLOSURE_VAL(1)>> \o [i \in 1..nLocals |-> NUMBER_VAL(i)],
             <<ScriptClosure>>, <<>>, <<>>)

\* the closures and upvalues on the heap once the closure is made
HeapRoom(function, caps, room) ==
  LET made == opClosure(VM, function, caps).m
  IN  Len(made.closures) + Len(made.upvalues) <= room

MakeClosure(stackRoom, heapRoom) ==
  \E caps \in Caps :
    /\ Len(stack) < stackRoom
    /\ Running /\ CapsOk(caps)
    /\ HeapRoom(Function(0, FALSE, FALSE, Len(caps)), caps, heapRoom)
    /\ OP_CLOSURE(Function(0, FALSE, FALSE, Len(caps)), caps)

NextCap ==
  \/ MakeClosure(CapStack, CapHeap)
  \/ OP_CLOSE_UPVALUE
  \/ OP_CALL(0)
  \/ OP_RETURN
  \/ OP_NEGATE

SpecCap == InitUpv /\ [][NextCap]_vars

NextUpv ==
  \/ Len(stack) < UpvStack /\ OP_CONSTANT(NUMBER_VAL(7))
  \/ MakeClosure(UpvStack, UpvHeap)
  \/ \E slot \in 0..(MaxCaps - 1) :
       Len(stack) < UpvStack /\ OP_GET_UPVALUE(slot)
  \/ \E slot \in 0..(MaxCaps - 1) : OP_SET_UPVALUE(slot)
  \/ OP_CLOSE_UPVALUE
  \/ OP_CALL(0)
  \/ OP_RETURN
  \/ OP_NEGATE

SpecUpv == InitUpv /\ [][NextUpv]_vars

\* the upvalue entries <<closure, index>> of the closures
CapturesOf(cls) ==
  {e \in {<<c, i>> : c \in 1..Len(cls), i \in 1..MaxCaps} :
     e[2] <= Len(cls[e[1]].upvalues)}

\* the open-upvalue list from upvalue u on, as a sequence
RECURSIVE openListFrom(_, _)
openListFrom(ups, u) ==
  IF u = 0 THEN <<>> ELSE <<u>> \o openListFrom(ups, ups[u].next)

OpenList == openListFrom(upvalues, openUpvalues)

\* the list holds exactly the upvalues that point into the stack, by
\* strictly decreasing address
OpenListOrdered ==
  /\ \A i \in 1..Len(OpenList) : upvalues[OpenList[i]].location >= 0
  /\ \A i \in 1..(Len(OpenList) - 1) :
       upvalues[OpenList[i]].location > upvalues[OpenList[i + 1]].location
  /\ \A u \in 1..Len(upvalues) :
       upvalues[u].location >= 0 => \E i \in 1..Len(OpenList) : OpenList[i] = u

\* the closure made by this step: an upvalue of it that points into the
\* stack points at the local asked for, and it was created only if no
\* upvalue was open on that cell
CaptureReuses ==
  lastOp' = "OP_CLOSURE" =>
    LET made == closures'[Len(closures')] IN
    \A i \in 1..Len(made.upvalues) :
      LET u == made.upvalues[i] IN
      /\ upvalues'[u].location >= 0 =>
           upvalues'[u].location = made.captured[i][1]
      /\ u > Len(upvalues) =>
           \A v \in 1..Len(upvalues) :
             upvalues[v].location # upvalues'[u].location

\* C7: in every state the open-upvalue list is strictly ordered by
\* decreasing stack slot, so no two open upvalues are on one slot;
\* captureUpvalue hands back the upvalue already open on a slot and inserts
\* a new one, in order, only when there is none.
C7_OpenUpvaluesOrdered == [][OpenListOrdered' /\ CaptureReuses]_vars

\* two upvalues are open and one of them was handed out twice
C7_TwoOpenOneShared ==
  /\ Len(OpenList) >= 2
  /\ \E e1, e2 \in CapturesOf(closures) :
       /\ e1 # e2
       /\ closures[e1[1]].upvalues[e1[2]] = closures[e2[1]].upvalues[e2[2]]
       /\ upvalues[closures[e1[1]].upvalues[e1[2]]].location >= 0

\* an upvalue closed by this step holds what its stack cell held
ClosedKeepsValue ==
  \A u \in 1..Len(upvalues) :
    (upvalues[u].location >= 0 /\ upvalues'[u].location = -1) =>
      upvalues'[u].closed = stackAt(VM, upvalues[u].location)

\* a closed upvalue stays closed, and its cell changes only by a
\* SET_UPVALUE of a closure that holds it
ClosedCellStable ==
  \A u \in 1..Len(upvalues) :
    upvalues[u].location = -1 =>
      /\ upvalues'[u].location = -1
      /\ upvalues'[u].closed # upvalues[u].closed =>
           /\ lastOp' = "OP_SET_UPVALUE"
           /\ \E i \in 1..Len(closures[CurrentFrame.closure].upvalues) :
                closures[CurrentFrame.closure].upvalues[i] = u
           /\ upvalues'[u].closed = peek(VM, 0)

\* captures of the same local read the same value
SharedCell ==
  \A e1, e2 \in CapturesOf(closures) :
    closures[e1[1]].captured[e1[2]] = closures[e2[1]].captured[e2[2]] =>
      readUpvalue(VM, closures[e1[1]].upvalues[e1[2]])
        = readUpvalue(VM, closures[e2[1]].upvalues[e2[2]])

\* C8: once the cell of a captured local is closed (CLOSE_UPVALUE, RETURN,
\* unwinding), the closures that captured it read the value the cell held
\* at that moment; later writes to the stack do not change it; and all
\* closures that captured the local go on sharing one cell.
C8_ClosedUpvalues ==
  [][ClosedKeepsValue /\ ClosedCellStable /\ SharedCell']_vars

\* a value written through one capture of a local after its cell was closed
\* has just been read through another capture of that local
C8_SharedClosedRead ==
  /\ lastOp = "OP_GET_UPVALUE"
  /\ stack[Len(stack)] = NUMBER_VAL(7)
  /\ \E e1, e2 \in CapturesOf(closures) :
       /\ e1 # e2
       /\ closures[e1[1]].captured[e1[2]] = closures[e2[1]].captured[e2[2]]
       /\ closures[e1[1]].upvalues[e1[2]] = closures[e2[1]].upvalues[e2[2]]
       /\ upvalues[closures[e1[1]].upvalues[e1[2]]].location = -1
       /\ upvalues[closures[e1[1]].upvalues[e1[2]]].closed = NUMBER_VAL(7)

(***************************************************************************)
(* SpecIdx: GET_INDEX and SET_INDEX on a list or a string that the program  *)
(* has built, with an index on either side of both ends, inside and          *)
(* outside a try block.                                                      *)
(***************************************************************************)
MaxLen == 2

\* the list [10, 11, ...] of n items
ListOfLen(n) == [k \in 1..n |-> NUMBER_VAL(9 + k)]

InitIdx ==
  \E n \in 0..MaxLen, s \in StrUpTo(MaxLen), onString \in BOOLEAN,
     i \in (0 - (MaxLen + 1))..(MaxLen + 1),
     isTry \in BOOLEAN, withValue \in BOOLEAN :
    InitWith(<<[ScriptFrame EXCEPT !.isTry = isTry,
                                   !.catchJump = IF isTry THEN CodeLen ELSE 0]>>,
             <<CLOSURE_VAL(1),
               IF onString THEN STRING_VAL(1) ELSE LIST_VAL(1),
               NUMBER_VAL(i)>>
               \o (IF withValue THEN <<NUMBER_VAL(99)>> ELSE <<>>),
             <<ScriptClosure>>, <<ListOfLen(n)>>, <<s>>)

NextIdx ==
  \/ \E u \in UninitOutcomes : OP_GET_INDEX(u)
  \/ \E u \in UninitOutcomes : OP_SET_INDEX(u)

SpecIdx == InitIdx /\ [][NextIdx]_vars

LengthOf(c) ==
  IF IS_LIST(c) THEN Len(lists[AS_OBJ(c)]) ELSE Len(strObjs[AS_OBJ(c)].chars)

\* the element a signed index stands for
Position(n, i) == IF i >= 0 THEN i ELSE i + n
InRange(n, i) == (0 - n) <= i /\ i < n

\* IndexException is raised, and that is all that happens: no element is
\* read or written, and the exception is caught or ends the run
IndexRaised ==
  /\ raised' = INST_VAL(IndexException)
  /\ ~crashed'
  /\ lists' = lists
  /\ IF TopTry(frames) # 0 THEN LandsAtCatch
     ELSE result' = INTERPRETER_RUNTIME_ERR

GetIndexStep ==
  /\ lastOp' = "OP_GET_INDEX"
  /\ IS_LIST(peek(VM, 1)) \/ IS_STRING(peek(VM, 1))
  /\ IS_NUMBER(peek(VM, 0))

SetIndexStep ==
  /\ lastOp' = "OP_SET_INDEX"
  /\ IS_LIST(peek(VM, 2))
  /\ IS_NUMBER(peek(VM, 1))

GetIndexYields ==
  LET c == peek(VM, 1)
      i == AS_NUMBER(peek(VM, 0))
      n == LengthOf(c)
      top == stack'[Len(stack')]
  IN  IF InRange(n, i)
      THEN /\ raised' = NoException /\ ~crashed'
           /\ result' = INTERPRETER_CONTINUE
           /\ Len(stack') = Len(stack) - 1
           /\ lists' = lists
           /\ IF IS_LIST(c)
              THEN top = lists[AS_OBJ(c)][Position(n, i) + 1]
              ELSE /\ IS_STRING(top)
                   /\ strObjs'[AS_OBJ(top)].chars
                        = <<strObjs[AS_OBJ(c)].chars[Position(n, i) + 1]>>
      ELSE IndexRaised

SetIndexWrites ==
  LET l == AS_OBJ(peek(VM, 2))
      i == AS_NUMBER(peek(VM, 1))
      value == peek(VM, 0)
      n == Len(lists[l])
  IN  IF InRange(n, i)
      THEN /\ raised' = NoException /\ ~crashed'
           /\ result' = INTERPRETER_CONTINUE
           /\ Len(stack') = Len(stack) - 2
           /\ stack'[Len(stack')] = value
           /\ lists' = [lists EXCEPT ![l][Position(n, i) + 1] = value]
      ELSE IndexRaised

\* C10: on a list or string of length n, GET_INDEX with -n <= i < n yields
\* element i (i >= 0) or element i + n (i < 0) and SET_INDEX on a list
\* writes that position; every integer index outside [-n, n) raises
\* IndexException and accesses no element.
C10_SignedIndex ==
  [][(GetIndexStep => GetIndexYields) /\ (SetIndexStep => SetIndexWrites)]_vars

\* the same, for the indices in range and for those out of range with no
\* try block active
C10_SignedIndexUnlessCaught ==
  [][/\ (GetIndexStep /\ (TopTry(frames) = 0
                            \/ InRange(LengthOf(peek(VM, 1)),
                                       AS_NUMBER(peek(VM, 0)))))
          => GetIndexYields
     /\ (SetIndexStep /\ (TopTry(frames) = 0
                            \/ InRange(LengthOf(peek(VM, 2)),
                                       AS_NUMBER(peek(VM, 1)))))
          => SetIndexWrites]_vars

(***************************************************************************)
(* SpecNested: list.forEach(callback), the callback run by a nested drive.  *)
(* The callback may create closures and call them.                          *)
(***************************************************************************)
NestedStack == 8
NestedDepth == 3
NestedClosures == 3

InitNested ==
  \E n \in 1..MaxLen, callback \in {Function(3, FALSE, FALSE, 0),
                                    Function(0, FALSE, TRUE, 0)} :
    InitWith(<<ScriptFrame>>,
             <<CLOSURE_VAL(1), LIST_VAL(1), CLOSURE_VAL(2)>>,
             <<ScriptClosure,
               [function |-> callback, upvalues |-> <<>>, captured |-> <<>>,
                owner |-> 1]>>,
             <<ListOfLen(n)>>, <<>>)

\* a closure that forEach can call with its three arguments
TakesThree(v) ==
  /\ IS_CLOSURE(v)
  /\ closures[AS_OBJ(v)].function.isLambda
       \/ closures[AS_OBJ(v)].function.arity = 3

TakesNone(v) ==
  /\ IS_CLOSURE(v)
  /\ closures[AS_OBJ(v)].function.arity = 0
  /\ ~closures[AS_OBJ(v)].function.varargs

NextNested ==
  \/ /\ Len(stack) + 3 < NestedStack /\ Len(frames) < NestedDepth
     /\ Len(stack) >= 2 /\ IS_LIST(peek(VM, 1)) /\ TakesThree(peek(VM, 0))
     /\ OP_INVOKE("forEach", 1)
  \/ Len(stack) >= 1 /\ IS_LIST(peek(VM, 0)) /\ OP_INVOKE("length", 0)
  \/ Len(stack) < NestedStack /\ OP_NULL
  \/ /\ Len(stack) < NestedStack /\ Len(closures) < NestedClosures
     /\ OP_CLOSURE(Function(0, FALSE, FALSE, 0), <<>>)
  \/ /\ Len(frames) < NestedDepth
     /\ Len(stack) >= 1 /\ TakesNone(peek(VM, 0))
     /\ OP_CALL(0)
  \/ OP_POP
  \/ OP_RETURN

SpecNested == InitNested /\ [][NextNested]_vars

\* a RETURN executed while a native waits in a nested drive
NestedReturn == lastOp' = "OP_RETURN" /\ nativeCalls # <<>>

\* the step handed a value back to the waiting native
DriveEnded == callInfo' # NoCall

\* the returning frame is the one callDragonFromNative pushed
OwnFrameReturns ==
  Len(frames) - 1 = nativeCalls[Len(nativeCalls)].entry

DriveYields ==
  /\ callInfo'.depth = nativeCalls[Len(nativeCalls)].entry
  /\ callInfo'.callee = nativeCalls[Len(nativeCalls)].callee
  /\ callInfo'.args = <<peek(VM, 0)>>

\* C3: a nested drive hands control back to the native exactly when the
\* frame count is back at its value on entry, that is when the frame of the
\* called closure returns, and yields the value that closure returned; a
\* RETURN of a function the closure called does not end the drive.
C3_NestedDriveEnds ==
  [][NestedReturn =>
       /\ DriveEnded <=> OwnFrameReturns
       /\ DriveEnded => DriveYields]_vars

\* the same, for the RETURN of the called closure's own frame only
C3_NestedDriveEndsOwnFrame ==
  [][NestedReturn /\ OwnFrameReturns => DriveEnded /\ DriveYields]_vars

\* the machine as callDragonFromNative leaves it when the RETURN that is
\* about to run ends the drive
DriveLeaves ==
  callDragonFromNative(opReturn(fetch(VM, 1), TRUE).m,
                       nativeCalls[Len(nativeCalls)].argsUsed)

\* the values of the returning frame above its parameters, but for the one
\* it returns: the locals that are live.  Compiled code returns with its
\* parameters in place, so with none or more.
LiveLocals ==
  Len(stack) - CurrentFrame.slots
    - closures[CurrentFrame.closure].function.arity - 2

\* C23: when callDragonFromNative has called a closure and returns its
\* value, the stack is as high as before the native pushed the arguments
\* of the call and the frame count is what it was on entry, whatever the
\* call did to fit the arguments to the arity and however many locals of
\* the callee were live when it returned.
C23_DriveRestores ==
  [][NestedReturn /\ DriveEnded /\ LiveLocals >= 0 =>
       /\ Len(DriveLeaves.stack) = nativeCalls[Len(nativeCalls)].height
       /\ frameCount(DriveLeaves) = nativeCalls[Len(nativeCalls)].entry]_vars

\* what the code does: the stack and the frame count are restored when the
\* frame that returns is the called closure's own and has no local live
C23_DriveRestoresNoLocals ==
  [][NestedReturn /\ DriveEnded /\ OwnFrameReturns /\ LiveLocals = 0 =>
       /\ Len(DriveLeaves.stack) = nativeCalls[Len(nativeCalls)].height
       /\ frameCount(DriveLeaves) = nativeCalls[Len(nativeCalls)].entry]_vars

\* the called closure is about to return with a local live, after a call
\* that dropped its surplus arguments; and with none live
C23_ReturnsWithLocal ==
  /\ nativeCalls # <<>> /\ Len(frames) - 1 = nativeCalls[Len(nativeCalls)].entry
  /\ nativeCalls[Len(nativeCalls)].argsUsed = 0
  /\ LiveLocals = 1

C23_ReturnsWithoutLocal ==
  /\ nativeCalls # <<>> /\ Len(frames) - 1 = nativeCalls[Len(nativeCalls)].entry
  /\ nativeCalls[Len(nativeCalls)].argsUsed = 3
  /\ LiveLocals = 0 /\ lastOp = "OP_NULL"

(***************************************************************************)
(* SpecStr: the intern table.  Strings are created by copyString and        *)
(* takeString from any bytes (literals, input, concatenation); which of     *)
(* them the program still holds when the collector runs is its choice: the  *)
(* collector deletes the others from the table and frees them.              *)
(***************************************************************************)
RECURSIVE listsEqual(_, _, _, _)
RECURSIVE valuesEqual(_, _, _)
listsEqual(m, a, b, i) ==
  IF Len(m.lists[a]) # Len(m.lists[b]) THEN FALSE
  ELSE IF i > Len(m.lists[a]) THEN TRUE
  ELSE IF ~valuesEqual(m, m.lists[a][i], m.lists[b][i]) THEN FALSE
  ELSE listsEqual(m, a, b, i + 1)

\* objects other than lists are compared by address
valuesEqual(m, a, b) ==
  IF IS_LIST(a) /\ IS_LIST(b) THEN listsEqual(m, AS_OBJ(a), AS_OBJ(b), 1)
  ELSE a = b

\* the collector once the strings in `marked' have been found reachable:
\* the unmarked keys of the intern table are deleted, then the sweep
collectGarbage(m, marked) ==
  [m EXCEPT !.strings = tableRemoveWhite(m.strObjs, m.strings, marked),
            !.strObjs = sweepStrings(m.strObjs, marked)]

\* a string was made by copyString or takeString; for the record, the
\* object handed out, the bytes asked for and the number of string objects
\* before the call
StringMade(r, op, chars) ==
  /\ strObjs' = r.objs
  /\ strings' = r.table
  /\ lastOp' = op
  /\ callInfo' = [callee |-> STRING_VAL(r.string), args |-> chars,
                  base |-> Len(strObjs), depth |-> 0]
  /\ UNCHANGED <<frames, stack, openUpvalues, upvalues, closures, lists,
                 frameSize, stackSize, stackStorage, result, crashed, raised,
                 nativeCalls,
                 modules, classes, instances, natives, exceptionClass,
                 importTable, chunk, source, tables, contents, answer,
                 shouldGC, building>>

CopyString(chars) ==
  /\ Running
  /\ StringMade(copyString(strObjs, strings, chars), "copyString", chars)

TakeString(chars) ==
  /\ Running
  /\ StringMade(takeString(strObjs, strings, chars), "takeString", chars)

LiveStrings == {k \in 1..Len(strObjs) : strObjs[k].live}

CollectGarbage(marked) ==
  /\ Running
  /\ strObjs' = collectGarbage(VM, marked).strObjs
  /\ strings' = collectGarbage(VM, marked).strings
  /\ lastOp' = "collectGarbage"
  /\ callInfo' = NoCall
  /\ UNCHANGED <<frames, stack, openUpvalues, upvalues, closures, lists,
                 frameSize, stackSize, stackStorage, result, crashed, raised,
                 nativeCalls,
                 modules, classes, instances, natives, exceptionClass,
                 importTable, chunk, source, tables, contents, answer,
                 shouldGC, building>>

InitStr == InitVM(<<>>)

StringRoom == Len(strObjs) < MaxStrings

NextStr ==
  \/ \E chars \in StrUpTo(MaxStrLen) : StringRoom /\ CopyString(chars)
  \/ \E chars \in StrUpTo(MaxStrLen) : StringRoom /\ TakeString(chars)
  \/ \E marked \in SUBSET LiveStrings : CollectGarbage(marked)

SpecStr == InitStr /\ [][NextStr]_vars

\* the string objects that are keys of the intern table
InternedKeys(table) ==
  {table.entries[i].key : i \in 1..table.capacity} \ {0}

NoTwoAlike ==
  \A k1, k2 \in InternedKeys(strings) :
    strObjs[k1].chars = strObjs[k2].chars => k1 = k2

EqualIffSame ==
  \A k1, k2 \in LiveStrings :
    valuesEqual(VM, STRING_VAL(k1), STRING_VAL(k2))
      <=> strObjs[k1].chars = strObjs[k2].chars

\* the object handed out has the bytes asked for, is in the table, and is
\* the object that was in the table with these bytes if there was one
ReturnsInterned ==
  lastOp' \in {"copyString", "takeString"} =>
    LET chars == callInfo'.args
        string == AS_OBJ(callInfo'.callee)
    IN  /\ strObjs'[string].chars = chars
        /\ strObjs'[string].live
        /\ string \in InternedKeys(strings')
        /\ \A k \in InternedKeys(strings) :
             strObjs[k].chars = chars => string = k /\ strObjs' = strObjs

\* C9: copyString and takeString hand out the object already interned for
\* the bytes whenever there is one, so no two string objects of the intern
\* table have the same bytes, and two strings are equal exactly when they
\* are the same object.
C9_Interning == [][ReturnsInterned /\ NoTwoAlike' /\ EqualIffSame']_vars

\* an interned object was handed out again, found behind the tombstone
\* that lies where the probe for its bytes starts
C9_InternedFoundPastTombstone ==
  /\ lastOp \in {"copyString", "takeString"}
  /\ Len(strObjs) = callInfo.base
  /\ strings.entries[HashIndex(hashString(callInfo.args), strings.capacity) + 1]
       = Tombstone

(***************************************************************************)
(* SpecImport: programs of several modules.  The main module and the        *)
(* modules it imports, which may import each other, raise and catch.        *)
(***************************************************************************)
MaxModules == 3
ImportStack == 4
ImportDepth == 3

Paths == {"a", "b"}

InitImport == InitVM(<<>>)

ImportRoom(path) ==
  /\ Len(stack) < ImportStack
  /\ tableHas(importTable, path)
       \/ (Len(modules) < MaxModules /\ Len(frames) < ImportDepth)

NextImport ==
  \/ \E path \in Paths : ImportRoom(path) /\ OP_IMPORT(path)
  \/ \E name \in {"Exception", "IndexException"} :
       Len(stack) < ImportStack /\ OP_GET_GLOBAL(name)
  \/ OP_CALL(0)
  \/ OP_THROW
  \/ \E catchLocation \in {2, 4} : OP_TRY_BEGIN(catchLocation)
  \/ OP_POP
  \/ OP_RETURN
  \/ FetchNoFrame

SpecImport == InitImport /\ [][NextImport]_vars

(***************************************************************************)
(* Claims about throw.                                                      *)
(***************************************************************************)
\* the class a module has under a name among its globals
GlobalClassOf(mod, name) == AS_OBJ(tableGet(modules[mod].globals, name))

\* v is an instance of the Exception of some module or of a subclass of it
IsException(v) ==
  /\ IS_INSTANCE(v)
  /\ \E mod \in 1..Len(modules) :
       instanceof(VM, AS_OBJ(v), GlobalClassOf(mod, "Exception"))

\* v is an instance of what vm->exceptionClass is at the moment, or of a
\* subclass of it
IsLatestException(v) ==
  IS_INSTANCE(v) /\ instanceof(VM, AS_OBJ(v), exceptionClass)

ThrowStep == lastOp' = "OP_THROW"
Throwee == peek(VM, 0)
TypeExceptionRaised ==
  /\ raised' # Throwee
  /\ raised' = INST_VAL(GlobalClassOf(currentModule(VM), "TypeException"))

\* C11: THROW takes its operand iff it is an instance of Exception or of a
\* transitive subclass, whichever module the class belongs to and whichever
\* modules have been imported since, and then unwinds with that very
\* instance; for any other operand TypeException is raised instead.
C11_ThrowAcceptsExceptions ==
  [][ThrowStep =>
       IF IsException(Throwee) THEN raised' = Throwee
       ELSE TypeExceptionRaised]_vars

\* the same, of the exception classes of the module made last
C11_ThrowAcceptsLatestExceptions ==
  [][ThrowStep =>
       IF IsLatestException(Throwee) THEN raised' = Throwee
       ELSE TypeExceptionRaised]_vars

\* an exception of the main module was thrown after an import
C11_MainExceptionAfterImport ==
  /\ lastOp = "OP_THROW"
  /\ Len(modules) > 1
  /\ frames # <<>> => currentModule(VM) = 1
  /\ raised = INST_VAL(GlobalClassOf(1, "TypeException"))

(***************************************************************************)
(* Claims about import.                                                     *)
(***************************************************************************)
ImportStep(path) ==
  lastOp' = "OP_IMPORT" /\ callInfo'.callee = <<"path", path>>

\* the modules made for a path: each runs the top-level code once
ModulesOf(mods, path) ==
  {mod \in 1..Len(mods) :
     tableGet(mods[mod].globals, "$thisModule") = <<"path", path>>}

Started(path) == ModulesOf(modules, path) # {}
Cached(path) == tableHas(importTable, path)

\* nothing is read, compiled or run, and the cached instance is pushed
PushesCached(path) ==
  /\ UNCHANGED <<modules, classes, closures, instances, importTable>>
  /\ Len(frames') = Len(frames)
  /\ Cached(path)
  /\ stack' = Append(stack, tableGet(importTable, path))

\* C12: the top-level code of the module at a path runs at most once:
\* every IMPORT of the path after the first, also one made while modules
\* import each other, makes no module and runs nothing, and pushes the
\* one cached Import instance.
C12_ImportOnce ==
  [][\A path \in Paths :
       ImportStep(path) /\ Started(path) => PushesCached(path)]_vars

\* the same, of the paths whose import has completed
C12_ImportOnceCompleted ==
  [][\A path \in Paths :
       ImportStep(path) /\ Cached(path) => PushesCached(path)]_vars

\* a module is importing itself
C12_ImportedWhileRunning ==
  \E path \in Paths : Cardinality(ModulesOf(modules, path)) > 1

\* the innermost call that is waiting in callDragonFromNative
InnermostNative == nativeCalls[Len(nativeCalls)]

\* the instruction of this step raised an exception in the top-level code
\* of a module that is being imported, or in what that code called, and no
\* frame pushed since the IMPORT has a handler
ModuleFails ==
  /\ lastOp' # "fetchExecute"
  /\ raised' # NoException
  /\ nativeCalls # <<>>
  /\ InnermostNative.kind = "import"
  /\ TopTry(frames) <= InnermostNative.entry

NothingImported == importTable' = importTable /\ instances' = instances

\* no IMPORT made at or above depth d is still waiting to complete
ImportsAbandoned(d) ==
  \A k \in 1..Len(nativeCalls') : nativeCalls'[k].entry < d

\* C13: when the top-level code of an imported module ends with an uncaught
\* exception, the IMPORT does not complete: no Import instance is pushed or
\* cached for the path, and the exception goes on in the importer, to an
\* enclosing handler or to termination with a runtime error.
C13_FailedImportPropagates ==
  [][ModuleFails =>
       /\ NothingImported
       /\ IF TopTry(frames) = 0
          THEN result' = INTERPRETER_RUNTIME_ERR
          ELSE LandsAtCatch /\ ImportsAbandoned(TopTry(frames))]_vars

\* what holds of the code: with a handler in the importer the exception
\* lands there, and at that moment nothing has been pushed or cached
C13_FailedImportLandsInImporter ==
  [][(ModuleFails /\ TopTry(frames) # 0)
       => LandsAtCatch /\ NothingImported]_vars

\* an import went on after its module had failed with no handler anywhere
C13_ImportedAfterFailure ==
  /\ raised # NoException
  /\ lastOp # "OP_IMPORT"
  /\ frames = <<>>
  /\ result = INTERPRETER_CONTINUE
  /\ \E path \in Paths : Cached(path)

(***************************************************************************)
(* SpecGlobals: a module exports a function that the main module calls;     *)
(* both modules and the function define, assign and read globals.           *)
(***************************************************************************)
GlobStack == 4
GlobDepth == 2
GlobClosures == 3

InitGlobals == InitVM(<<>>)

NextGlobals ==
  \/ Len(modules) < 2 /\ Len(frames) < GlobDepth /\ Len(stack) < GlobStack
       /\ OP_IMPORT("a")
  \/ Len(stack) < GlobStack /\ Len(closures) < GlobClosures
       /\ OP_CLOSURE(Function(0, FALSE, FALSE, 0), <<>>)
  \/ OP_EXPORT("f")
  \/ OP_GET_PROPERTY("f")
  \/ Len(frames) < GlobDepth /\ OP_CALL(0)
  \/ Len(stack) < GlobStack /\ OP_CONSTANT(NUMBER_VAL(5))
  \/ OP_DEFINE_GLOBAL("x")
  \/ OP_SET_GLOBAL("x")
  \/ \E name \in {"x", "Exception"} :
       Len(stack) < GlobStack /\ OP_GET_GLOBAL(name)
  \/ OP_RETURN
  \/ FetchNoFrame

SpecGlobals == InitGlobals /\ [][NextGlobals]_vars

(***************************************************************************)
(* Claims about globals.                                                    *)
(***************************************************************************)
\* the module in which the closure of the running frame was made
Creator == closures[CurrentFrame.closure].owner
OperandName == callInfo'.callee[2]

OthersKeepGlobals ==
  /\ Len(modules') = Len(modules)
  /\ \A mod \in 1..Len(modules) : mod # Creator => modules'[mod] = modules[mod]

UndefinedRaised ==
  raised' = INST_VAL(GlobalClassOf(Creator, "UndefinedVariableException"))

GetGlobalReads ==
  lastOp' = "OP_GET_GLOBAL" =>
    /\ modules' = modules
    /\ IF tableHas(modules[Creator].globals, OperandName)
       THEN /\ raised' = NoException
            /\ stack' = Append(stack, modules[Creator].globals[OperandName])
       ELSE UndefinedRaised

DefineGlobalWrites ==
  lastOp' = "OP_DEFINE_GLOBAL" =>
    /\ OthersKeepGlobals
    /\ DOMAIN modules'[Creator].globals
         = DOMAIN modules[Creator].globals \cup {OperandName}
    /\ \A name \in DOMAIN modules'[Creator].globals :
         modules'[Creator].globals[name]
           = IF name = OperandName THEN peek(VM, 0)
             ELSE modules[Creator].globals[name]

SetGlobalWrites ==
  lastOp' = "OP_SET_GLOBAL" =>
    /\ OthersKeepGlobals
    /\ DOMAIN modules'[Creator].globals = DOMAIN modules[Creator].globals
    /\ \A name \in DOMAIN modules[Creator].globals :
         modules'[Creator].globals[name]
           = IF name = OperandName THEN peek(VM, 0)
             ELSE modules[Creator].globals[name]
    /\ ~tableHas(modules[Creator].globals, OperandName) => UndefinedRaised

\* a closure belongs to the module whose code made it, the closure of a
\* module's top-level code to that module
ClosureOwned ==
  /\ lastOp' = "OP_CLOSURE" => closures'[Len(closures')].owner = Creator
  /\ (lastOp' = "OP_IMPORT" /\ Len(modules') > Len(modules))
       => closures'[Len(closures')].owner = Len(modules')

\* C14: GET_GLOBAL, SET_GLOBAL and DEFINE_GLOBAL executed by a closure read
\* and write the globals of the module in which the closure was made and no
\* others, whichever module's code called it: the globals of every other
\* module stay as they are.
C14_GlobalsOfOwner ==
  [][GetGlobalReads /\ DefineGlobalWrites /\ SetGlobalWrites
       /\ ClosureOwned]_vars

\* a function of the imported module, called by the main module's code,
\* has read its own module's Exception
C14_ReadInCalledModule ==
  /\ lastOp = "OP_GET_GLOBAL"
  /\ nativeCalls = <<>>
  /\ Len(frames) = 2
  /\ closures[frames[1].closure].owner = 1
  /\ closures[frames[2].closure].owner = 2
  /\ stack[Len(stack)] = modules[2].globals["Exception"]
  /\ stack[Len(stack)] # modules[1].globals["Exception"]

(***************************************************************************)
(* The compiler's code for switch.  A chunk is the sequence of its bytes:  *)
(* an opcode is its name, a constant operand is the number it loads, a     *)
(* jump operand is two bytes, high then low.  Offsets into it count from 0 *)
(* as in the source.                                                       *)
(***************************************************************************)
emitByte(c, byte) == Append(c, byte)
emitPair(c, byte1, byte2) == emitByte(emitByte(c, byte1), byte2)

\* the chunk after emitJump; the offset it returns is jumpOperand of it
emitJump(c, instruction) == emitByte(emitByte(emitByte(c, instruction), 255), 255)
jumpOperand(c) == Len(c) - 2

patchJump(c, offset) ==
  LET jmp == Len(c) - offset - 2
  IN  [c EXCEPT ![offset + 1] = (jmp \div 256) % 256,
                ![offset + 2] = jmp % 256]

emitLoop(c, loopStart) ==
  LET c1 == emitByte(c, "OP_LOOP")
      offset == Len(c1) - loopStart + 2
  IN  emitByte(emitByte(c1, (offset \div 256) % 256), offset % 256)

\* Syntax trees are tuples headed by the kind of the node.  A name is its
\* own operand, and so is a number; the variables of an expression are
\* globals, but for the local that namedVariable below resolves.
RECURSIVE expression(_, _)
RECURSIVE statement(_, _, _)

RECURSIVE argumentList(_, _, _)
argumentList(c, arguments, k) ==
  IF k > Len(arguments) THEN c
  ELSE argumentList(expression(c, arguments[k]), arguments, k + 1)

\* number, variable, call, dot (call, get and assignment), binary
expression(c, e) ==
  CASE e[1] = "number" -> emitPair(c, "OP_CONSTANT", e[2])
    [] e[1] = "true" -> emitByte(c, "OP_TRUE")
    [] e[1] = "false" -> emitByte(c, "OP_FALSE")
    [] e[1] = "list" -> emitPair(argumentList(c, e[2], 1), "OP_LIST", Len(e[2]))
    [] e[1] = "assign" -> emitPair(expression(c, e[3]), "OP_SET_GLOBAL", e[2])
    [] e[1] = "variable" -> emitPair(c, "OP_GET_GLOBAL", e[2])
    [] e[1] = "local" -> emitPair(c, "OP_GET_LOCAL", e[2])
    [] e[1] = "call" ->
         emitPair(argumentList(expression(c, e[2]), e[3], 1), "OP_CALL",
                  Len(e[3]))
    [] e[1] = "invoke" ->
         emitByte(emitPair(argumentList(expression(c, e[2]), e[4], 1),
                           "OP_INVOKE", e[3]), Len(e[4]))
    [] e[1] = "get" -> emitPair(expression(c, e[2]), "OP_GET_PROPERTY", e[3])
    [] e[1] = "set" ->
         emitPair(expression(expression(c, e[2]), e[4]), "OP_SET_PROPERTY",
                  e[3])
    [] e[1] = "instanceof" ->
         emitByte(expression(expression(c, e[2]), e[3]), "OP_INSTANCEOF")
    [] e[1] = "binary" ->
         emitByte(expression(expression(c, e[3]), e[4]), e[2])
    [] e[1] = "unary" -> emitByte(expression(c, e[3]), e[2])

expressionStatement(c, e) == emitByte(expression(c, e), "OP_POP")

\* function: the closure of a function that takes nothing and has an empty
\* body
function(c, name) == emitPair(c, "OP_CLOSURE", name)

method(c, name) == emitPair(function(c, name), "OP_METHOD", name)

RECURSIVE classBody(_, _, _)
classBody(c, names, k) ==
  IF k > Len(names) THEN c
  ELSE classBody(method(c, names[k]), names, k + 1)

\* class name [: super] { methods }; super is "" where the clause is absent
classDeclaration(c, name, super, names) ==
  LET c1 == emitPair(emitPair(c, "OP_CLASS", name), "OP_DEFINE_GLOBAL", name)
      c2 == IF super = "" THEN emitByte(c1, "OP_OBJECT")
            ELSE expression(c1, <<"variable", super>>)
      c3 == emitByte(expression(c2, <<"variable", name>>), "OP_INHERIT")
      c4 == classBody(expression(c3, <<"variable", name>>), names, 1)
  IN  \* the class, then endScope: the local super
      emitByte(emitByte(c4, "OP_POP"), "OP_POP")

\* initCompiler for a script: slot 0 of the frame is the local "this"; the
\* state of the compiler that the statements below read
initCompiler ==
  [locals |-> <<[name |-> "this", depth |-> 0]>>, scopeDepth |-> 0,
   isInLoop |-> FALSE, continueJump |-> 0, breakJump |-> 0]

beginScope(compiler) == [compiler EXCEPT !.scopeDepth = @ + 1]

\* declareVariable and addLocal: in a scope a name becomes the next local
addLocal(compiler, name) ==
  [compiler EXCEPT !.locals = Append(@, [name |-> name,
                                         depth |-> compiler.scopeDepth])]
declareVariable(compiler, name) ==
  IF compiler.scopeDepth = 0 THEN compiler ELSE addLocal(compiler, name)

\* the slot of the innermost local of that name, -1 where there is none
resolveLocal(compiler, name) ==
  LET found == {i \in 1..Len(compiler.locals) :
                  compiler.locals[i].name = name}
  IN  IF found = {} THEN -1
      ELSE (CHOOSE i \in found : \A j \in found : j <= i) - 1

\* namedVariable, for an expression that is a name alone: the local where
\* resolveLocal finds one, else the global.  The scripts read a local
\* nowhere but in such an expression.
namedVariable(compiler, e) ==
  IF e[1] = "variable" /\ resolveLocal(compiler, e[2]) # -1
  THEN <<"local", resolveLocal(compiler, e[2])>>
  ELSE e

\* endScope: a pop for each of the count locals of the scope that ends
\* (none of them is captured)
RECURSIVE endScope(_, _)
endScope(c, count) ==
  IF count = 0 THEN c ELSE endScope(emitByte(c, "OP_POP"), count - 1)

\* var name = e: defineVariable emits nothing in a scope, where the value
\* of e stays on the stack as the local
varDeclaration(c, compiler, name, e) ==
  IF compiler.scopeDepth > 0 THEN expression(c, namedVariable(compiler, e))
  ELSE emitPair(expression(c, e), "OP_DEFINE_GLOBAL", name)

continueStatement(c, compiler) == emitLoop(c, compiler.continueJump)

breakStatement(c, compiler) ==
  emitLoop(emitByte(c, "OP_FALSE"), compiler.breakJump - 1)

\* try body catch (name) handler: name is a local of the scope of the
\* handler, popped by endScope
tryStatement(c, compiler, body, name, handler) ==
  LET c1 == emitByte(c, "OP_TRY_BEGIN")
      catchLocation == Len(c1)
      c2 == emitByte(statement(emitPair(c1, 255, 255), compiler, body),
                     "OP_TRY_END")
      c3 == emitJump(c2, "OP_JUMP")
      tryFinallyJump == jumpOperand(c3)
      inner == declareVariable(beginScope(compiler), name)
      c4 == statement(patchJump(c3, catchLocation), inner, handler)
  IN  patchJump(endScope(c4, 1), tryFinallyJump)

whileStatement(c, compiler, condition, body) ==
  LET loopStart == Len(c)
      c1 == emitJump(expression(c, condition), "OP_JUMP_IF_FALSE")
      exitJump == jumpOperand(c1)
      inner == [compiler EXCEPT !.isInLoop = TRUE,
                                !.continueJump = loopStart,
                                !.breakJump = exitJump]
      c2 == emitLoop(statement(c1, inner, body), loopStart)
  IN  patchJump(c2, exitJump)

\* patterns: <<"literal", n>>, <<"else">> and <<"not", n>> for ! n
pattern(c, p) ==
  IF p[1] = "else" THEN emitByte(emitByte(c, "OP_POP"), "OP_TRUE")
  ELSE IF p[1] = "not"
    THEN emitByte(emitByte(expression(c, <<"number", p[2]>>), "OP_EQUAL"),
                  "OP_NOT")
  ELSE emitByte(expression(c, <<"number", p[2]>>), "OP_EQUAL")

\* the patterns after a comma
RECURSIVE morePatterns(_, _, _)
morePatterns(c, patterns, k) ==
  IF k > Len(patterns) THEN c
  ELSE LET c1 == emitJump(c, "OP_JUMP_IF_FALSE")
           falseJump == jumpOperand(c1)
           c2 == emitJump(c1, "OP_JUMP")
           trueJump == jumpOperand(c2)
           c3 == patchJump(c2, falseJump)
           c4 == pattern(emitByte(c3, "OP_DUP"), patterns[k])
       IN  morePatterns(patchJump(c4, trueJump), patterns, k + 1)

\* for (init; condition; increment) body, where each of the three is <<>>
\* when the clause is absent and init is a var declaration or an
\* expression statement
forStatement(c, compiler, init, condition, increment, body) ==
  LET isVar == Len(init) > 0 /\ init[1] = "var"
      c1 == IF Len(init) = 0 THEN c
            ELSE IF isVar
              THEN varDeclaration(c, beginScope(compiler), init[2], init[3])
            ELSE expressionStatement(c, init[2])
      scope == IF isVar THEN declareVariable(beginScope(compiler), init[2])
               ELSE beginScope(compiler)
      c2 == emitJump(IF Len(condition) > 0 THEN expression(c1, condition)
                     ELSE emitByte(c1, "OP_TRUE"), "OP_JUMP_IF_FALSE")
      exitJump == jumpOperand(c2)
      c3 == emitJump(c2, "OP_JUMP")
      bodyJump == jumpOperand(c3)
      c4 == patchJump(emitLoop(emitByte(expression(c3, increment), "OP_POP"),
                               Len(c1)), bodyJump)
      loopStart == IF Len(increment) = 0 THEN Len(c1) ELSE Len(c3)
      c5 == IF Len(increment) = 0 THEN c2 ELSE c4
      inner == [scope EXCEPT !.isInLoop = TRUE, !.continueJump = loopStart,
                             !.breakJump = exitJump]
      c6 == emitLoop(statement(c5, inner, body), loopStart)
  IN  endScope(patchJump(c6, exitJump), IF isVar THEN 1 ELSE 0)

\* foreach (var name in iterable) body: the item is a local of the scope of
\* the loop, the iterator a temporary above it
foreachStatement(c, compiler, name, iterable, body) ==
  LET scope == declareVariable(beginScope(compiler), name)
      local == resolveLocal(scope, name)
      c1 == emitPair(emitByte(c, "OP_NULL"), "OP_SET_LOCAL", local)
      c2 == emitByte(emitPair(expression(c1, iterable), "OP_INVOKE",
                              "iterator"), 0)
      loopStart == Len(c2)
      c3 == emitByte(emitPair(emitByte(c2, "OP_DUP"), "OP_INVOKE", "more"), 0)
      c4 == emitJump(c3, "OP_JUMP_IF_FALSE")
      exitJump == jumpOperand(c4)
      c5 == emitByte(emitPair(emitByte(c4, "OP_DUP"), "OP_INVOKE", "next"), 0)
      c6 == emitByte(emitPair(c5, "OP_SET_LOCAL", local), "OP_POP")
      inner == [scope EXCEPT !.isInLoop = TRUE, !.continueJump = loopStart,
                             !.breakJump = exitJump]
      c7 == emitLoop(statement(c6, inner, body), loopStart)
  IN  endScope(patchJump(c7, exitJump), 1)

\* switchStatement with statements as arms: a case is the list of its
\* patterns and its arm.  The compiler's break and continue targets are
\* left as they are.
RECURSIVE switchArms(_, _, _, _, _)
switchArms(c, compiler, cases, i, breakJump) ==
  IF i > Len(cases) THEN c
  ELSE LET c1 == pattern(emitByte(c, "OP_DUP"), cases[i][1][1])
           c2 == emitJump(morePatterns(c1, cases[i][1], 2), "OP_JUMP_IF_FALSE")
           jmp == jumpOperand(c2)
           c3 == emitLoop(statement(c2, compiler, cases[i][2]), breakJump - 1)
       IN  switchArms(patchJump(c3, jmp), compiler, cases, i + 1, breakJump)

switchOf(c, compiler, scrutinee, cases) ==
  LET c1 == emitJump(expression(c, scrutinee), "OP_JUMP")
      breakSkipJump == jumpOperand(c1)
      c2 == emitJump(c1, "OP_JUMP")
      breakJump == jumpOperand(c2)
      c3 == switchArms(patchJump(c2, breakSkipJump), beginScope(compiler),
                       cases, 1, breakJump)
  IN  emitByte(patchJump(c3, breakJump), "OP_POP")

\* the compiler after the declaration that statement s may be
declared(compiler, s) ==
  IF s[1] = "var" THEN declareVariable(compiler, s[2]) ELSE compiler

\* the test of Len(c1) has TLC compute the code of a statement before it
\* goes on to the next, which keeps its evaluation shallow
RECURSIVE block(_, _, _, _)
block(c, compiler, statements, k) ==
  IF k > Len(statements) THEN c
  ELSE LET c1 == statement(c, compiler, statements[k])
       IN  IF Len(c1) >= 0
           THEN block(c1, declared(compiler, statements[k]), statements,
                      k + 1)
           ELSE c1

\* the locals that the statements of a block declare
Declarations(statements) ==
  Cardinality({k \in 1..Len(statements) : statements[k][1] = "var"})

statement(c, compiler, s) ==
  CASE s[1] = "expression" ->
         expressionStatement(c, namedVariable(compiler, s[2]))
    [] s[1] = "var" -> varDeclaration(c, compiler, s[2], s[3])
    [] s[1] = "function" ->
         emitPair(function(c, s[2]), "OP_DEFINE_GLOBAL", s[2])
    [] s[1] = "class" -> classDeclaration(c, s[2], s[3], s[4])
    [] s[1] = "try" -> tryStatement(c, compiler, s[2], s[3], s[4])
    [] s[1] = "while" -> whileStatement(c, compiler, s[2], s[3])
    [] s[1] = "for" -> forStatement(c, compiler, s[2], s[3], s[4], s[5])
    [] s[1] = "foreach" -> foreachStatement(c, compiler, s[2], s[3], s[4])
    [] s[1] = "switch" -> switchOf(c, compiler, s[2], s[3])
    [] s[1] = "break" -> breakStatement(c, compiler)
    [] s[1] = "continue" -> continueStatement(c, compiler)
    [] s[1] = "block" ->
         endScope(block(c, beginScope(compiler), s[2], 1),
                  Declarations(s[2]))

\* the arm of case i evaluates a number that tells the cases apart
ArmValue(i) == 10 + i

\* the loop over the cases, the same in both compilers but for the arm
RECURSIVE switchCases(_, _, _, _, _)
switchCases(c, cases, i, breakJump, isExpression) ==
  IF i > Len(cases) THEN c
  ELSE LET c1 == pattern(emitByte(c, "OP_DUP"), cases[i][1])
           c2 == emitJump(morePatterns(c1, cases[i], 2), "OP_JUMP_IF_FALSE")
           jmp == jumpOperand(c2)
           c3 == IF isExpression
                 THEN expression(c2, <<"number", ArmValue(i)>>)
                 ELSE expressionStatement(c2, <<"number", ArmValue(i)>>)
           c4 == emitLoop(c3, breakJump - 1)
       IN  switchCases(patchJump(c4, jmp), cases, i + 1, breakJump,
                       isExpression)

switchExpression(c, tree) ==
  LET c1 == emitJump(expression(c, <<"number", tree.scrutinee>>), "OP_JUMP")
      breakSkipJump == jumpOperand(c1)
      c2 == emitJump(c1, "OP_JUMP")
      breakJump == jumpOperand(c2)
      c3 == switchCases(patchJump(c2, breakSkipJump), tree.cases, 1,
                        breakJump, TRUE)
  IN  emitPair(patchJump(emitByte(c3, "OP_NULL"), breakJump), "OP_SWAP",
               "OP_POP")

switchStatement(c, tree) ==
  LET c1 == emitJump(expression(c, <<"number", tree.scrutinee>>), "OP_JUMP")
      breakSkipJump == jumpOperand(c1)
      c2 == emitJump(c1, "OP_JUMP")
      breakJump == jumpOperand(c2)
      c3 == switchCases(patchJump(c2, breakSkipJump), tree.cases, 1,
                        breakJump, FALSE)
  IN  emitByte(patchJump(c3, breakJump), "OP_POP")

OP_EQUAL ==
  /\ Running /\ CanFetch(1)
  /\ Commit(continue(push(pop(pop(fetch(VM, 1))),
                          BOOL_VAL(valuesEqual(VM, peekOrStale(VM, 1),
                                               peekOrStale(VM, 0))))),
            "OP_EQUAL", NoCall)

\* the instruction at frame->ip and its operands
At(instruction) ==
  /\ Running
  /\ CurrentFrame.ip < Len(Code)
  /\ Code[CurrentFrame.ip + 1] = instruction
READ_BYTE(k) == Code[CurrentFrame.ip + 1 + k]
READ_SHORT == READ_BYTE(1) * 256 + READ_BYTE(2)

(***************************************************************************)
(* SpecSwitch: a script that is one switch, run from its first byte.       *)
(***************************************************************************)
MaxCases == 2
MaxPatterns == 2
Literals == {1, 2}

Patterns ==
  {<<"literal", n>> : n \in Literals} \cup {<<"else">>, <<"not", 1>>}
PatternLists == UNION {[1..n -> Patterns] : n \in 1..MaxPatterns}
Switches ==
  [isExpression : BOOLEAN, scrutinee : Literals,
   cases : UNION {[1..n -> PatternLists] : n \in 1..MaxCases}]

compileSwitch(tree) ==
  IF tree.isExpression THEN switchExpression(<<>>, tree)
  ELSE switchStatement(<<>>, tree)

InitSwitch ==
  \E tree \in Switches :
    InitCode(<<ScriptFrame>>, <<CLOSURE_VAL(1)>>, <<ScriptClosure>>, <<>>,
             <<>>, compileSwitch(tree), tree)

NextSwitch ==
  \/ At("OP_CONSTANT") /\ OP_CONSTANT(NUMBER_VAL(READ_BYTE(1)))
  \/ At("OP_NULL") /\ OP_NULL
  \/ At("OP_TRUE") /\ OP_TRUE
  \/ At("OP_POP") /\ OP_POP
  \/ At("OP_DUP") /\ OP_DUP
  \/ At("OP_SWAP") /\ OP_SWAP
  \/ At("OP_NOT") /\ OP_NOT
  \/ At("OP_EQUAL") /\ OP_EQUAL
  \/ At("OP_JUMP_IF_FALSE") /\ OP_JUMP_IF_FALSE(READ_SHORT)
  \/ At("OP_JUMP") /\ OP_JUMP(READ_SHORT)
  \/ At("OP_LOOP") /\ OP_LOOP(READ_SHORT)

SpecSwitch == InitSwitch /\ [][NextSwitch]_vars

\* what the language says of a switch
Matches(p, v) ==
  IF p[1] = "else" THEN TRUE
  ELSE IF p[1] = "not" THEN v # p[2]
  ELSE v = p[2]
CaseMatches(i) ==
  \E k \in 1..Len(source.cases[i]) : Matches(source.cases[i][k], source.scrutinee)
FirstMatch ==
  IF \E i \in 1..Len(source.cases) : CaseMatches(i)
  THEN CHOOSE i \in 1..Len(source.cases) :
         CaseMatches(i) /\ \A j \in 1..(i - 1) : ~CaseMatches(j)
  ELSE 0
SwitchValue ==
  IF FirstMatch = 0 THEN NULL_VAL ELSE NUMBER_VAL(ArmValue(FirstMatch))

\* the arm of case i has just been entered: its number has been loaded
ArmRuns(i) ==
  /\ lastOp = "OP_CONSTANT"
  /\ stack # <<>>
  /\ stack[Len(stack)] = NUMBER_VAL(ArmValue(i))
\* control is past the switch
AtLanding == Running /\ CurrentFrame.ip = Len(chunk)
LandingStack ==
  IF source.isExpression THEN <<CLOSURE_VAL(1), SwitchValue>>
  ELSE <<CLOSURE_VAL(1)>>

\* C15: only the arm of the first case with a matching pattern runs, and at
\* the landing the scrutinee is gone, the script's slot is unchanged and a
\* switch expression has left the value of that arm, or null when no case
\* matched.
C15_SwitchFirstMatch ==
  /\ \A i \in 1..Len(source.cases) : ArmRuns(i) => i = FirstMatch
  /\ AtLanding => stack = LandingStack

\* a pattern before a comma matches in the case that is selected
EarlierPatternMatches ==
  /\ FirstMatch # 0
  /\ \E k \in 1..(Len(source.cases[FirstMatch]) - 1) :
       Matches(source.cases[FirstMatch][k], source.scrutinee)

\* C15, the switches where it holds: those in which the case selected
\* matches by its last pattern only.
C15_SwitchLastPattern == EarlierPatternMatches \/ C15_SwitchFirstMatch

\* a switch completes with a case selected by the last of its two patterns
C15_SecondPatternSelected ==
  /\ AtLanding
  /\ FirstMatch # 0
  /\ Len(source.cases[FirstMatch]) = 2
  /\ ~EarlierPatternMatches

(***************************************************************************)
(* Classes and instances (src/src/vm.c).                                   *)
(***************************************************************************)
\* newClass: no superclass and no methods yet
opClass(m) ==
  continue(push([m EXCEPT !.classes = Append(@, newClass(0, NoEntries))],
                CLASS_VAL(Len(m.classes) + 1)))

OP_CLASS ==
  /\ Running /\ CanFetch(2)
  /\ Commit(opClass(fetch(VM, 2)), "OP_CLASS", NoCall)

OP_OBJECT ==
  /\ Running /\ CanFetch(1)
  /\ Commit(continue(push(fetch(VM, 1), CLASS_VAL(ObjectClass))), "OP_OBJECT",
            NoCall)

\* a plausible slip: the superclass is recorded but its methods are not
\* copied
opInheritNoCopy(m) ==
  LET super == peek(m, 1) IN
  IF ~IS_CLASS(super) THEN throwOrFail(m, TypeException)
  ELSE continue(pop([m EXCEPT !.classes[AS_OBJ(peek(m, 0))].superclass =
                                AS_OBJ(super)]))

opInherit(m) ==
  LET super == peek(m, 1) IN
  IF ~IS_CLASS(super) THEN throwOrFail(m, TypeException)
  ELSE LET subclass == AS_OBJ(peek(m, 0))
           m1 == [m EXCEPT !.classes[subclass].methods =
                             tableAddAll(m.classes[AS_OBJ(super)].methods, @),
                           !.classes[subclass].superclass = AS_OBJ(super)]
       IN  continue(pop(m1))

OP_INHERIT ==
  /\ Running /\ CanFetch(1)
  /\ Commit(opInherit(fetch(VM, 1)), "OP_INHERIT", NoCall)

defineMethod(m, name) ==
  pop([m EXCEPT !.classes[AS_OBJ(peek(m, 1))].methods =
                  tablePut(@, name, peek(m, 0))])

OP_METHOD(name) ==
  /\ Running /\ CanFetch(2)
  /\ Commit(continue(defineMethod(fetch(VM, 2), name)), "OP_METHOD",
            NameInfo(name))

opInstanceof(m) ==
  LET super == peek(m, 0)
      value == peek(m, 1)
      m1 == pop(pop(m))
  IN  IF ~IS_INSTANCE(value) THEN continue(push(m1, BOOL_VAL(FALSE)))
      ELSE IF ~IS_CLASS(super) THEN throwOrFail(m1, TypeException)
      ELSE continue(push(m1, BOOL_VAL(instanceof(m1, klassOf(value),
                                                 AS_OBJ(super)))))

OP_INSTANCEOF ==
  /\ Running /\ CanFetch(1)
  /\ Commit(opInstanceof(fetch(VM, 1)), "OP_INSTANCEOF", NoCall)

opSetProperty(m, name) ==
  IF ~IS_INSTANCE(peek(m, 1)) THEN throwOrFail(m, TypeException)
  ELSE LET instance == peek(m, 1)
           value == peek(m, 0)
           m1 == [m EXCEPT !.instances[instance[3]].fields =
                             tablePut(@, name, value)]
       IN  continue(push(pop(pop(m1)), value))

\* of an instance that has its fields on the heap
OP_SET_PROPERTY(name) ==
  /\ Running /\ CanFetch(2)
  /\ IS_INSTANCE(peek(VM, 1)) => Len(peek(VM, 1)) = 3
  /\ Commit(opSetProperty(fetch(VM, 2), name), "OP_SET_PROPERTY",
            NameInfo(name))

\* callValue, OBJ_CLASS, with the instance on the heap.  No class here has a
\* native for its constructor.
callClass(m, callee, argCount, argsUsedIn) ==
  LET klass == AS_OBJ(callee)
      i == newInstance(m, klass, NoEntries)
      m1 == setCalleeSlot(i.m, argCount, i.instance)
      methods == m.classes[klass].methods
  IN  IF tableHas(methods, "constructor")
      THEN call(m1, AS_OBJ(tableGet(methods, "constructor")), argCount,
                argsUsedIn)
      ELSE IF argCount # 0
      THEN returned(throwException(pop(pop(m1)), ArityException), argsUsedIn)
      ELSE [m |-> m1, ok |-> TRUE, argsUsed |-> argsUsedIn]

\* OP_CALL of a class
OP_CALL_CLASS(argCount) ==
  /\ Running /\ CanFetch(2)
  /\ IS_CLASS(peek(VM, argCount))
  /\ Commit(orFail(callClass(fetch(VM, 2), peek(VM, argCount), argCount, 0)),
            "OP_CALL", CallInfo(VM, argCount))

(***************************************************************************)
(* SpecClasses: a script that declares a function h, a class A and a class *)
(* B : A, makes an instance b of B, may give it a field, tests b           *)
(* instanceof a class and calls a property of b in a try statement.        *)
(***************************************************************************)
Classes ==
  [aSuper : {"", "Exception"}, aMethods : {<<>>, <<"f">>, <<"f", "g">>},
   bMethods : {<<>>, <<"f">>, <<"g">>},
   field : {<<>>, <<"f", <<"number", 5>>>>, <<"g", <<"variable", "h">>>>},
   tested : {"A", "B", "Object", "Exception"},
   name : {"f", "g", "nope"}, arguments : {<<>>, << <<"number", 1>> >>},
   dot : BOOLEAN]

\* the call b.name(arguments), or (b.name)(arguments) where dot is false
propertyCall(tree) ==
  IF tree.dot
  THEN <<"invoke", <<"variable", "b">>, tree.name, tree.arguments>>
  ELSE <<"call", <<"get", <<"variable", "b">>, tree.name>>, tree.arguments>>

script(tree) ==
  << <<"function", "h">>,
     <<"class", "A", tree.aSuper, tree.aMethods>>,
     <<"class", "B", "A", tree.bMethods>>,
     <<"var", "b", <<"call", <<"variable", "B">>, <<>> >> >> >>
  \o (IF tree.field = <<>> THEN <<>>
      ELSE << <<"expression", <<"set", <<"variable", "b">>, tree.field[1],
                                tree.field[2]>> >> >>)
  \o << <<"var", "t", <<"instanceof", <<"variable", "b">>,
                        <<"variable", tree.tested>> >> >>,
        <<"try", <<"block", << <<"expression", propertyCall(tree)>> >> >>,
                 "e", <<"block", <<>> >> >> >>

InitClasses ==
  \E tree \in Classes :
    InitCode(<<ScriptFrame>>, <<CLOSURE_VAL(1)>>, <<ScriptClosure>>, <<>>,
             <<>>, block(<<>>, initCompiler, script(tree), 1), tree)

NextClasses ==
  \/ At("OP_CONSTANT") /\ OP_CONSTANT(NUMBER_VAL(READ_BYTE(1)))
  \/ At("OP_POP") /\ OP_POP
  \/ At("OP_CLOSURE") /\ OP_CLOSURE(Function(0, FALSE, FALSE, 0), <<>>)
  \/ At("OP_DEFINE_GLOBAL") /\ OP_DEFINE_GLOBAL(READ_BYTE(1))
  \/ At("OP_GET_GLOBAL") /\ OP_GET_GLOBAL(READ_BYTE(1))
  \/ At("OP_CLASS") /\ OP_CLASS
  \/ At("OP_OBJECT") /\ OP_OBJECT
  \/ At("OP_INHERIT") /\ OP_INHERIT
  \/ At("OP_METHOD") /\ OP_METHOD(READ_BYTE(1))
  \/ At("OP_CALL") /\ OP_CALL_CLASS(READ_BYTE(1))
  \/ At("OP_CALL") /\ ~IS_CLASS(peek(VM, READ_BYTE(1)))
       /\ OP_CALL(READ_BYTE(1))
  \/ At("OP_NULL") /\ OP_NULL
  \/ At("OP_RETURN") /\ OP_RETURN
  \/ At("OP_SET_PROPERTY") /\ OP_SET_PROPERTY(READ_BYTE(1))
  \/ At("OP_GET_PROPERTY") /\ OP_GET_PROPERTY(READ_BYTE(1))
  \/ At("OP_INVOKE") /\ OP_INVOKE(READ_BYTE(1), READ_BYTE(2))
  \/ At("OP_INSTANCEOF") /\ OP_INSTANCEOF
  \/ At("OP_TRY_BEGIN") /\ OP_TRY_BEGIN(READ_SHORT)
  \/ At("OP_TRY_END") /\ OP_TRY_END
  \/ At("OP_JUMP") /\ OP_JUMP(READ_SHORT)

SpecClasses == InitClasses /\ [][NextClasses]_vars

\* the globals of the script, and the classes it has bound to names
Globals == modules[1].globals
ClassNamed(name) == AS_OBJ(tableGet(Globals, name))
MethodsOf(name) == classes[ClassNamed(name)].methods

\* INVOKE is the next instruction and its receiver is an instance
InvokeOfInstance ==
  /\ At("OP_INVOKE")
  /\ IS_INSTANCE(peek(VM, READ_BYTE(2)))

\* what OP_INVOKE name n makes of the state
Outcome(r) == [m |-> r.m, res |-> r.res]
ByInvoke ==
  Outcome(invoke(fetch(VM, 3), READ_BYTE(1), READ_BYTE(2), nativeCalls))

RECURSIVE pushAll(_, _, _)
pushAll(m, values, k) ==
  IF k > Len(values) THEN m ELSE pushAll(push(m, values[k]), values, k + 1)

\* what OP_GET_PROPERTY name, the same arguments and OP_CALL n make of the
\* state the receiver was pushed in; the call is not reached when the
\* property get has raised
ByProperty ==
  LET n == READ_BYTE(2)
      args == [i \in 1..n |-> peek(VM, n - i)]
      g == opGetProperty(fetch(popTimes(VM, n), 2), READ_BYTE(1))
  IN  IF g.res # INTERPRETER_CONTINUE \/ g.m.raised # NoException THEN g
      ELSE opCall(fetch(pushAll(g.m, args, 1), 2), n)

\* the frames but for the ip of the frame of the script, which counts the
\* bytes of the instructions
FramesOf(m) == [m.frames EXCEPT ![1].ip = 0]

\* the callee is the closure of the new frame, the receiver binding the
\* slot at its base; a run that has ended in an error has no stack to
\* compare
SameOutcome(a, b) ==
  /\ a.res = b.res
  /\ a.m.raised = b.m.raised
  /\ a.res = INTERPRETER_CONTINUE =>
       /\ a.m.stack = b.m.stack
       /\ FramesOf(a.m) = FramesOf(b.m)

\* C16: for an instance receiver, INVOKE name n and GET_PROPERTY name
\* followed by CALL n with the same arguments find the name in the fields
\* first and then in the methods of the class, and leave the same callee,
\* the same receiver binding, the same stack and the same frames.
C16_InvokeAsPropertyCall == InvokeOfInstance => SameOutcome(ByInvoke, ByProperty)

\* the name is a field of the receiver or a method of its class
NameFound ==
  LET receiver == peek(VM, READ_BYTE(2))
  IN  \/ tableHas(fieldsOf(VM, receiver), READ_BYTE(1))
      \/ tableHas(classes[klassOf(receiver)].methods, READ_BYTE(1))

\* the callee the name stands for: the field where there is one
CalleeFieldFirst ==
  LET receiver == peek(VM, READ_BYTE(2))
      name == READ_BYTE(1)
      r == ByInvoke
  IN  (tableHas(fieldsOf(VM, receiver), name) /\ Len(r.m.frames) = 2)
        => CLOSURE_VAL(r.m.frames[2].closure)
             = tableGet(fieldsOf(VM, receiver), name)

\* C16 for the names that are found
C16_InvokeAsPropertyCallFound ==
  (InvokeOfInstance /\ NameFound)
    => (SameOutcome(ByInvoke, ByProperty) /\ CalleeFieldFirst)

\* a field that hides a method of the class is invoked
C16_FieldInvoked ==
  /\ lastOp = "OP_INVOKE"
  /\ Len(frames) = 2
  /\ source.field # <<>>
  /\ source.field[1] = "g"
  /\ source.name = "g"
  /\ "g" \in DOMAIN MethodsOf("B")

\* class B : A has been defined: an instance of it is bound to b
DefinedB == tableHas(Globals, "b")

\* declaration k of the script makes closure k + 1: h, then the methods of A,
\* then those of B
MethodOfA(k) == CLOSURE_VAL(2 + k)
MethodOfB(k) == CLOSURE_VAL(2 + Len(source.aMethods) + k)
Defines(names, name) == \E k \in 1..Len(names) : names[k] = name

\* the superclass chain of a class, up to the class that has none
RECURSIVE chainOf(_)
chainOf(k) == IF k = 0 THEN <<>> ELSE <<k>> \o chainOf(classes[k].superclass)

\* the chain the declarations ask for
ChainOfB ==
  <<ClassNamed("B"), ClassNamed("A")>>
    \o (IF source.aSuper = "" THEN <<>> ELSE <<ClassNamed(source.aSuper)>>)
    \o <<ObjectClass>>

\* C17: once class B : A is defined, B's table has A's implementation of
\* every method of A that B does not define and B's own of every method it
\* defines, B's superclass is A, the chain from B is finite and ends at
\* Object, and b instanceof C holds exactly for the classes C of that chain.
C17_Inheritance ==
  DefinedB =>
    /\ \A name \in DOMAIN MethodsOf("A") :
         ~Defines(source.bMethods, name)
           => /\ tableHas(MethodsOf("B"), name)
              /\ tableGet(MethodsOf("B"), name) = tableGet(MethodsOf("A"), name)
    /\ \A k \in 1..Len(source.aMethods) :
         tableGet(MethodsOf("A"), source.aMethods[k]) = MethodOfA(k)
    /\ \A k \in 1..Len(source.bMethods) :
         tableGet(MethodsOf("B"), source.bMethods[k]) = MethodOfB(k)
    /\ DOMAIN MethodsOf("B")
         = DOMAIN MethodsOf("A")
             \cup {source.bMethods[k] : k \in 1..Len(source.bMethods)}
    /\ classes[ClassNamed("B")].superclass = ClassNamed("A")
    /\ chainOf(ClassNamed("B")) = ChainOfB
    /\ tableHas(Globals, "t") =>
         tableGet(Globals, "t")
           = BOOL_VAL(\E i \in 1..Len(ChainOfB) :
                        ChainOfB[i] = ClassNamed(source.tested))

\* B inherits f from A and overrides g, and instanceof has been evaluated
\* for a class that is not on the chain
C17_InheritsAndOverrides ==
  /\ tableHas(Globals, "t")
  /\ source.aMethods = <<"f", "g">>
  /\ source.bMethods = <<"g">>
  /\ source.aSuper = ""
  /\ source.tested = "Exception"
  /\ tableGet(Globals, "t") = BOOL_VAL(FALSE)

(***************************************************************************)
(* The integer operators (src/src/vm.c, BITWISE_BINARY_OP and OP_BIT_NOT   *)
(* to OP_RSH).  A number is a double: the whole ones are NUMBER_VAL(n),    *)
(* and HALF_VAL(n) is n / 2 for an odd n.  intmax_t has 64 bits; the       *)
(* operands here are small, and of them &, | and ^ are those of two's      *)
(* complement at any width.                                                *)
(***************************************************************************)
RECURSIVE bitAnd(_, _)
bitAnd(a, b) ==
  IF a = 0 \/ b = 0 THEN 0
  ELSE IF a = -1 THEN b
  ELSE IF b = -1 THEN a
  ELSE (a % 2) * (b % 2) + 2 * bitAnd(a \div 2, b \div 2)

RECURSIVE bitOr(_, _)
bitOr(a, b) ==
  IF a = 0 THEN b
  ELSE IF b = 0 THEN a
  ELSE IF a = -1 \/ b = -1 THEN -1
  ELSE (IF a % 2 = 1 \/ b % 2 = 1 THEN 1 ELSE 0)
         + 2 * bitOr(a \div 2, b \div 2)

RECURSIVE bitXor(_, _)
bitXor(a, b) ==
  IF a = 0 THEN b
  ELSE IF b = 0 THEN a
  ELSE IF a = -1 THEN 0 - b - 1
  ELSE IF b = -1 THEN 0 - a - 1
  ELSE ((a + b) % 2) + 2 * bitXor(a \div 2, b \div 2)

RECURSIVE pow2(_)
pow2(n) == IF n <= 0 THEN 1 ELSE 2 * pow2(n - 1)

\* what a build makes of a shift that C leaves undefined: a shift by a
\* negative count or by 64 or more, a left shift of a negative number, the
\* conversion of a negative double to uintmax_t
UndefinedShifts == {0, -1}

and(a, b, u) == bitAnd(a, b)
or(a, b, u) == bitOr(a, b)
xor(a, b, u) == bitXor(a, b)
lsh(a, b, u) == IF a >= 0 /\ b >= 0 /\ b < 64 THEN a * pow2(b) ELSE u
\* >> of a negative intmax_t is an arithmetic shift in every build
ash(a, b, u) == IF b >= 0 /\ b < 64 THEN a \div pow2(b) ELSE u
rsh(a, b, u) == IF a >= 0 /\ b >= 0 /\ b < 64 THEN a \div pow2(b) ELSE u

opBitNot(m) ==
  IF ~IS_NUMBER(peek(m, 0)) THEN throwOrFail(m, TypeException)
  ELSE IF ~isInteger(peek(m, 0)) THEN throwOrFail(pop(m), TypeException)
  ELSE continue(push(pop(m), NUMBER_VAL(0 - AS_NUMBER(peek(m, 0)) - 1)))

\* the operator the macro is expanded with, applied to the two integers
integerOp(op, a, b, u) ==
  CASE op = "&" -> and(a, b, u)
    [] op = "|" -> or(a, b, u)
    [] op = "^" -> xor(a, b, u)
    [] op = "<<" -> lsh(a, b, u)
    [] op = ">>" -> ash(a, b, u)

BITWISE_BINARY_OP(m, op, u) ==
  IF ~IS_NUMBER(peek(m, 0)) \/ ~IS_NUMBER(peek(m, 1))
  THEN throwOrFail(pop(pop(m)), TypeException)
  ELSE IF ~isInteger(peek(m, 1)) \/ ~isInteger(peek(m, 0))
  THEN throwOrFail(pop(pop(m)), TypeException)
  ELSE continue(push(pop(pop(m)),
                     NUMBER_VAL(integerOp(op, AS_NUMBER(peek(m, 1)),
                                          AS_NUMBER(peek(m, 0)), u))))

\* OP_RSH: where an operand is no number nothing is popped
opRsh(m, u) ==
  IF ~IS_NUMBER(peek(m, 0)) \/ ~IS_NUMBER(peek(m, 1))
  THEN throwOrFail(m, TypeException)
  ELSE IF ~isInteger(peek(m, 1)) \/ ~isInteger(peek(m, 0))
  THEN throwOrFail(pop(pop(m)), TypeException)
  ELSE continue(push(pop(pop(m)),
                     NUMBER_VAL(rsh(AS_NUMBER(peek(m, 1)),
                                    AS_NUMBER(peek(m, 0)), u))))

\* the operands are values the code has pushed in this frame
HasOperands(n) ==
  /\ Running /\ CanFetch(1)
  /\ Len(stack) > CurrentFrame.slots + n
  /\ TopNotCaptured(n)

OP_BIT_NOT ==
  /\ HasOperands(1)
  /\ Commit(opBitNot(fetch(VM, 1)), "OP_BIT_NOT", NoCall)
OP_AND ==
  /\ HasOperands(2)
  /\ Commit(BITWISE_BINARY_OP(fetch(VM, 1), "&", 0), "OP_AND", NoCall)
OP_OR ==
  /\ HasOperands(2)
  /\ Commit(BITWISE_BINARY_OP(fetch(VM, 1), "|", 0), "OP_OR", NoCall)
OP_XOR ==
  /\ HasOperands(2)
  /\ Commit(BITWISE_BINARY_OP(fetch(VM, 1), "^", 0), "OP_XOR", NoCall)
OP_LSH(u) ==
  /\ HasOperands(2)
  /\ Commit(BITWISE_BINARY_OP(fetch(VM, 1), "<<", u), "OP_LSH", NoCall)
OP_ASH(u) ==
  /\ HasOperands(2)
  /\ Commit(BITWISE_BINARY_OP(fetch(VM, 1), ">>", u), "OP_ASH", NoCall)
OP_RSH(u) ==
  /\ HasOperands(2)
  /\ Commit(opRsh(fetch(VM, 1), u), "OP_RSH", NoCall)

(***************************************************************************)
(* SpecBits: programs of constants and integer operators, with and         *)
(* without a handler.                                                      *)
(***************************************************************************)
BitStack == 3
BitConstants ==
  {NUMBER_VAL(-1), NUMBER_VAL(1), NUMBER_VAL(2), HALF_VAL(3), NULL_VAL}

InitBits == InitVM(<<>>)

NextBits ==
  \/ \E constant \in BitConstants :
       Len(stack) < BitStack /\ OP_CONSTANT(constant)
  \/ OP_BIT_NOT
  \/ OP_AND
  \/ OP_OR
  \/ OP_XOR
  \/ \E u \in UndefinedShifts : OP_LSH(u)
  \/ \E u \in UndefinedShifts : OP_ASH(u)
  \/ \E u \in UndefinedShifts : OP_RSH(u)
  \/ \E catchLocation \in {2, 4} : OP_TRY_BEGIN(catchLocation)

SpecBits == InitBits /\ [][NextBits]_vars

BitOps ==
  {"OP_BIT_NOT", "OP_AND", "OP_OR", "OP_XOR", "OP_LSH", "OP_ASH", "OP_RSH"}
ShiftOps == {"OP_LSH", "OP_ASH", "OP_RSH"}
BitStep == lastOp' \in BitOps
BitOperands ==
  IF lastOp' = "OP_BIT_NOT" THEN {peek(VM, 0)} ELSE {peek(VM, 0), peek(VM, 1)}
WholeNumber(v) == IS_NUMBER(v) /\ Len(v) = 2
NegativeCount ==
  /\ lastOp' \in ShiftOps
  /\ WholeNumber(peek(VM, 0))
  /\ AS_NUMBER(peek(VM, 0)) < 0
TypeRaised ==
  raised' = INST_VAL(GlobalClassOf(currentModule(VM), "TypeException"))
\* the run has ended, or the exception is what lies on top of the stack
NoResultPushed ==
  result' = INTERPRETER_CONTINUE => stack'[Len(stack')] = raised'

\* C18: ~, &, |, ^, <<, >> and >>> raise TypeException unless every operand
\* is a whole number, the shifts also when the count is negative, and then
\* push no result.
C18_IntegerOperands ==
  [][BitStep =>
       IF (\E v \in BitOperands : ~WholeNumber(v)) \/ NegativeCount
       THEN TypeRaised /\ NoResultPushed
       ELSE raised' = NoException]_vars

\* C18 without the negative counts: those are shifted by
C18_WholeOperands ==
  [][BitStep =>
       IF \E v \in BitOperands : ~WholeNumber(v)
       THEN TypeRaised /\ NoResultPushed
       ELSE raised' = NoException]_vars

\* a shift by a negative count has pushed a number
C18_ShiftedByNegative ==
  /\ lastOp \in ShiftOps
  /\ raised = NoException
  /\ IS_NUMBER(stack[Len(stack)])
  /\ callInfo = NoCall

(***************************************************************************)
(* SpecTry: scripts of try statements, compiled and run from their first   *)
(* byte.  The body of a try raises with nothing pending, with a temporary, *)
(* with a callee and an argument, or with a local of its block on the      *)
(* stack; try statements are nested, and left by break and continue.       *)
(***************************************************************************)
Nope == <<"expression", <<"variable", "nope">> >>
CallH == <<"expression", <<"call", <<"variable", "h">>, <<>> >> >>

\* nope;  1 - nope;  1 - h;  h(1, nope);  { var x = 1; nope; }  h();
TryBodies ==
  {Nope, CallH,
   <<"expression", <<"binary", "OP_SUB", <<"number", 1>>,
                     <<"variable", "nope">> >> >>,
   <<"expression", <<"binary", "OP_SUB", <<"number", 1>>,
                     <<"variable", "h">> >> >>,
   <<"expression", <<"call", <<"variable", "h">>,
                     << <<"number", 1>>, <<"variable", "nope">> >> >> >>,
   <<"block", << <<"var", "x", <<"number", 1>> >>, Nope >> >>}

\* try body catch (e) { e; }
Try(body) ==
  <<"try", body, "e", <<"block", << <<"expression", <<"variable", "e">> >> >> >> >>

\* the ways out of the body of a try in a loop
Leaves == {<<"break">>, <<"continue">>}

\* function h() {} and then: a try; a try in a block that has a local; a
\* try and a statement in the body of a try; a loop around a try that is
\* left, and a statement after the loop
TryScripts ==
  {<< <<"function", "h">>, Try(body) >> : body \in TryBodies}
  \cup {<< <<"function", "h">>,
           <<"block", << <<"var", "y", <<"number", 2>> >>, Try(body) >> >> >> :
          body \in TryBodies}
  \cup {<< <<"function", "h">>,
           Try(<<"block", <<Try(body), after>> >>) >> :
          body \in TryBodies, after \in {Nope, CallH}}
  \cup {<< <<"function", "h">>,
           <<"while", <<"true">>, Try(<<"block", <<leave>> >>)>>, Nope >> :
          leave \in Leaves}

InitTry ==
  \E tree \in TryScripts :
    InitCode(<<ScriptFrame>>, <<CLOSURE_VAL(1)>>, <<ScriptClosure>>, <<>>,
             <<>>, block(<<>>, initCompiler, tree, 1), tree)

NextTry ==
  \/ At("OP_CONSTANT") /\ OP_CONSTANT(NUMBER_VAL(READ_BYTE(1)))
  \/ At("OP_POP") /\ OP_POP
  \/ At("OP_CLOSURE") /\ OP_CLOSURE(Function(0, FALSE, FALSE, 0), <<>>)
  \/ At("OP_DEFINE_GLOBAL") /\ OP_DEFINE_GLOBAL(READ_BYTE(1))
  \/ At("OP_GET_GLOBAL") /\ OP_GET_GLOBAL(READ_BYTE(1))
  \/ At("OP_GET_LOCAL") /\ OP_GET_LOCAL(READ_BYTE(1))
  \/ At("OP_SUB") /\ OP_SUB
  \/ At("OP_CALL") /\ OP_CALL(READ_BYTE(1))
  \/ At("OP_NULL") /\ OP_NULL
  \/ At("OP_RETURN") /\ OP_RETURN
  \/ At("OP_TRUE") /\ OP_TRUE
  \/ At("OP_FALSE") /\ OP_FALSE
  \/ At("OP_JUMP_IF_FALSE") /\ OP_JUMP_IF_FALSE(READ_SHORT)
  \/ At("OP_JUMP") /\ OP_JUMP(READ_SHORT)
  \/ At("OP_LOOP") /\ OP_LOOP(READ_SHORT)
  \/ At("OP_TRY_BEGIN") /\ OP_TRY_BEGIN(READ_SHORT)
  \/ At("OP_TRY_END") /\ OP_TRY_END

SpecTry == InitTry /\ [][NextTry]_vars

\* The try statements of a statement compiled at the end of c: for each the
\* addresses of the first instruction of its body and of its TRY_END, its
\* catch target, and the slot the compiler gives to its catch variable
RECURSIVE tryRegions(_, _, _)
RECURSIVE blockRegions(_, _, _, _)
tryRegions(c, compiler, s) ==
  CASE s[1] = "try" ->
         LET c1 == emitPair(emitByte(c, "OP_TRY_BEGIN"), 255, 255)
             c2 == statement(c1, compiler, s[2])
             c3 == emitJump(emitByte(c2, "OP_TRY_END"), "OP_JUMP")
             inner == declareVariable(beginScope(compiler), s[3])
         IN  {[first |-> Len(c1), last |-> Len(c2), catch |-> Len(c3),
               slot |-> resolveLocal(inner, s[3])]}
             \cup tryRegions(c1, compiler, s[2])
             \cup tryRegions(c3, inner, s[4])
    [] s[1] = "while" ->
         tryRegions(emitJump(expression(c, s[2]), "OP_JUMP_IF_FALSE"),
                    compiler, s[3])
    [] s[1] = "block" -> blockRegions(c, beginScope(compiler), s[2], 1)
    [] OTHER -> {}

blockRegions(c, compiler, statements, k) ==
  IF k > Len(statements) THEN {}
  ELSE tryRegions(c, compiler, statements[k])
       \cup blockRegions(statement(c, compiler, statements[k]),
                         declared(compiler, statements[k]), statements, k + 1)

TryRegions == blockRegions(<<>>, initCompiler, source, 1)

\* an instruction has raised and a frame has caught what it raised
Caught == chunk # <<>> /\ Running /\ raised # NoException
CatchingTry == CHOOSE t \in TryRegions : t.catch = CurrentFrame.ip

\* C19: when a frame catches an exception its stack is cut back to the
\* height it had at the matching TRY_BEGIN plus one, so that the exception
\* is in the slot the compiler assigned to the catch variable, also when
\* locals of the try block or temporaries were on the stack at the throw.
C19_CatchSlot ==
  Caught =>
    /\ Len(stack) = CurrentFrame.slots + CatchingTry.slot + 1
    /\ stack[CurrentFrame.slots + CatchingTry.slot + 1] = raised

\* what the code does: the frame goes on at the catch target of the try it
\* was in with the exception on top of whatever the stack held
C19_CaughtOnTop ==
  Caught =>
    /\ \E t \in TryRegions : t.catch = CurrentFrame.ip
    /\ ~CurrentFrame.isTry
    /\ Len(stack) >= CurrentFrame.slots + CatchingTry.slot + 1
    /\ stack[Len(stack)] = raised

\* an exception is caught with more on the stack than at the TRY_BEGIN
C19_CaughtWithPending ==
  /\ Caught
  /\ Len(stack) > CurrentFrame.slots + CatchingTry.slot + 1

\* the try statements whose body holds the instruction the script is at
Enclosing ==
  {t \in TryRegions : frames[1].ip >= t.first /\ frames[1].ip <= t.last}
Innermost == CHOOSE t \in Enclosing : \A u \in Enclosing : u.first <= t.first

\* C20: at every point the frame's is_try is true iff control in it is
\* lexically inside the body of a try statement, and the catch target is
\* that of the innermost such try: the outer handler is still armed after
\* an inner try/catch has completed, and none is after break or continue
\* has left the body.
C20_TryLexical ==
  (chunk # <<>> /\ frames # <<>>) =>
    /\ frames[1].isTry <=> Enclosing # {}
    /\ Enclosing # {} => frames[1].catchJump = Innermost.catch

\* what the code does: the flag is that of the last TRY_BEGIN, TRY_END or
\* catch of the frame, and an armed frame has the target of a try
C20_ArmedAtSomeTry ==
  (chunk # <<>> /\ frames # <<>> /\ frames[1].isTry) =>
    \E t \in TryRegions : t.catch = frames[1].catchJump

\* the script is in the body of an outer try, past an inner try statement,
\* and its frame is not armed
C20_OuterDisarmed ==
  /\ chunk # <<>> /\ frames # <<>>
  /\ Enclosing # {} /\ ~frames[1].isTry
  /\ \E t \in TryRegions : t.first > Innermost.first /\ t.catch <= frames[1].ip

\* the script is outside every try body and its frame is armed
C20_ArmedOutside ==
  /\ chunk # <<>> /\ frames # <<>>
  /\ Enclosing = {} /\ frames[1].isTry

(***************************************************************************)
(* The statements of a script and the height of the stack.  The scripts    *)
(* are compiled by the compiler above and run from their first             *)
(* instruction.                                                            *)
(***************************************************************************)
Number(n) == <<"expression", <<"number", n>> >>
Read(name) == <<"expression", <<"variable", name>> >>
VarOf(name, n) == <<"var", name, <<"number", n>> >>

\* the lists [], [10] and [10, 11]
ListItems == {<<>>, << <<"number", 10>> >>, << <<"number", 10>>, <<"number", 11>> >>}

\* {}, { x; } and { var y = 1; y; }
ForeachBodies ==
  {<<"block", <<>> >>,
   <<"block", <<Read("x")>> >>,
   <<"block", <<VarOf("y", 1), Read("y")>> >>}

Foreach(items, body) == <<"foreach", "x", <<"list", items>>, body>>

\* var go = true; while (go) { var x = 1; go = false; x; }
WhileOnce ==
  << <<"var", "go", <<"true">> >>,
     <<"while", <<"variable", "go">>,
       <<"block", <<VarOf("x", 1),
                    <<"expression", <<"assign", "go", <<"false">> >> >>,
                    Read("x")>> >> >> >>

\* var go = true; for (var i = 1; go; go = false) { i; }
ForOnce ==
  << <<"var", "go", <<"true">> >>,
     <<"for", VarOf("i", 1), <<"variable", "go">>,
       <<"assign", "go", <<"false">> >>, <<"block", <<Read("i")>> >> >> >>

\* switch (n) { 1 -> 2; else -> { 3; } }
SwitchOn(n) ==
  <<"switch", <<"number", n>>,
    << << << <<"literal", 1>> >>, Number(2)>>,
       << << <<"else">> >>, <<"block", <<Number(3)>> >> >> >> >>

\* a foreach loop and a statement after it, at the top of the script and in
\* a block between two locals that are read after the loop; and scripts
\* of the other statements
ForeachScripts ==
  {<<Foreach(items, body), Number(7)>> :
     items \in ListItems, body \in ForeachBodies}
  \cup {<< <<"block", <<VarOf("a", 5), Foreach(items, body), VarOf("b", 6),
                        Read("b"), Read("a")>> >>, Number(7)>> :
          items \in ListItems, body \in ForeachBodies}
  \cup {WhileOnce \o <<Number(7)>>, ForOnce \o <<Number(7)>>}
  \cup {<< <<"block", <<VarOf("a", 5), s, VarOf("b", 6), Read("b"),
                        Read("a")>> >>, Number(7)>> :
          s \in {SwitchOn(1), SwitchOn(2),
                 <<"block", <<VarOf("c", 4), Read("c")>> >>}}

\* the return that ends the code of a function that is no constructor
emitReturn(c) == emitByte(emitByte(c, "OP_NULL"), "OP_RETURN")

\* compile: the declarations of the script, then endCompiler
compile(tree) == emitReturn(block(<<>>, initCompiler, tree, 1))

InitForeach ==
  \E tree \in ForeachScripts :
    InitCode(<<ScriptFrame>>, <<CLOSURE_VAL(1)>>, <<ScriptClosure>>, <<>>,
             <<>>, compile(tree), tree)

NextForeach ==
  \/ At("OP_CONSTANT") /\ OP_CONSTANT(NUMBER_VAL(READ_BYTE(1)))
  \/ At("OP_POP") /\ OP_POP
  \/ At("OP_DUP") /\ OP_DUP
  \/ At("OP_NULL") /\ OP_NULL
  \/ At("OP_TRUE") /\ OP_TRUE
  \/ At("OP_FALSE") /\ OP_FALSE
  \/ At("OP_EQUAL") /\ OP_EQUAL
  \/ At("OP_LIST") /\ OP_LIST(READ_BYTE(1))
  \/ At("OP_DEFINE_GLOBAL") /\ OP_DEFINE_GLOBAL(READ_BYTE(1))
  \/ At("OP_GET_GLOBAL") /\ OP_GET_GLOBAL(READ_BYTE(1))
  \/ At("OP_SET_GLOBAL") /\ OP_SET_GLOBAL(READ_BYTE(1))
  \/ At("OP_GET_LOCAL") /\ OP_GET_LOCAL(READ_BYTE(1))
  \/ At("OP_SET_LOCAL") /\ OP_SET_LOCAL(READ_BYTE(1))
  \/ At("OP_INVOKE") /\ OP_INVOKE(READ_BYTE(1), READ_BYTE(2))
  \/ At("OP_JUMP_IF_FALSE") /\ OP_JUMP_IF_FALSE(READ_SHORT)
  \/ At("OP_JUMP") /\ OP_JUMP(READ_SHORT)
  \/ At("OP_LOOP") /\ OP_LOOP(READ_SHORT)
  \/ At("OP_RETURN") /\ OP_RETURN

SpecForeach == InitForeach /\ [][NextForeach]_vars

\* The ends of the statements of a statement compiled at the end of c, where
\* no temporary of an enclosing statement is live: for each the address
\* after the statement, the number of locals the compiler has there, the
\* kind of the statement, and how many foreach loops the script has
\* completed when control is there
\* the foreach loops among the statements of s that run once
RECURSIVE foreachLoops(_)
foreachLoops(s) ==
  CASE s[1] = "foreach" -> 1
    [] s[1] = "block" /\ Len(s[2]) > 0 ->
         foreachLoops(s[2][1]) + foreachLoops(<<"block", Tail(s[2])>>)
    [] OTHER -> 0

RECURSIVE statementEnds(_, _, _, _)
RECURSIVE blockEnds(_, _, _, _, _)
statementEnds(c, compiler, s, loops) ==
  CASE s[1] = "block" -> blockEnds(c, beginScope(compiler), s[2], 1, loops)
    [] s[1] = "while" ->
         blockEnds(emitJump(expression(c, s[2]), "OP_JUMP_IF_FALSE"),
                   compiler, <<s[3]>>, 1, loops)
    [] OTHER -> {}

blockEnds(c, compiler, statements, k, loops) ==
  IF k > Len(statements) THEN {}
  ELSE LET s == statements[k]
           after == loops + foreachLoops(s)
       IN  {[at |-> Len(statement(c, compiler, s)),
             locals |-> Len(declared(compiler, s).locals),
             kind |-> s[1], loops |-> after]}
           \cup statementEnds(c, compiler, s, loops)
           \cup blockEnds(statement(c, compiler, s), declared(compiler, s),
                          statements, k + 1, after)

StatementEnds == blockEnds(<<>>, initCompiler, source, 1, 0)

\* the script is at the end of statement e
AtEnd(e) ==
  /\ Running /\ Len(frames) = 1
  /\ frames[1].ip = e.at

\* C21: when a statement has completed, the stack is as high as it was
\* before the statement plus the locals the statement declared, so that it
\* holds the locals the compiler has at that point and nothing else, and
\* the local the compiler numbered n is frame slot n; so it is after a
\* foreach loop has ended.
C21_StatementNeutral ==
  chunk # <<>> =>
    \A e \in StatementEnds : AtEnd(e) => Len(stack) = e.locals

\* what the code does: the statements are neutral until a foreach loop has
\* ended, and each loop over a list that has ended has left two values
C21_ForeachLeavesTwo ==
  chunk # <<>> =>
    \A e \in StatementEnds : AtEnd(e) => Len(stack) = e.locals + 2 * e.loops

\* a foreach loop has just ended
C21_AfterForeach ==
  /\ chunk # <<>>
  /\ \E e \in StatementEnds : AtEnd(e) /\ e.kind = "foreach"

\* a local declared after a foreach loop is read, and the value read is not
\* the one it was declared with
C21_LocalMisread ==
  /\ chunk # <<>> /\ Running /\ Len(frames) = 1
  /\ \E e \in StatementEnds :
       /\ e.loops > 0 /\ e.kind = "var" /\ frames[1].ip = e.at + 2
       /\ lastOp = "OP_GET_LOCAL"
       /\ stack[Len(stack)] # NUMBER_VAL(6)

(***************************************************************************)
(* break and continue.  A script has one loop, whose body leaves it from    *)
(* the block of the body, from a block that has declared a local, from     *)
(* nested blocks, or from the arm of a switch.                             *)
(***************************************************************************)
GoOff == <<"expression", <<"assign", "go", <<"false">> >> >>

\* switch (1) { 1 -> arm }
SwitchArm(arm) ==
  <<"switch", <<"number", 1>>, << << << <<"literal", 1>> >>, arm>> >> >>

\* what follows go = false; in the body of a while loop
LeaveBodies(leave) ==
  {<<leave>>,
   <<VarOf("x", 1), leave>>,
   << <<"block", <<VarOf("x", 1),
                   <<"block", <<VarOf("y", 2), leave>> >> >> >> >>,
   <<SwitchArm(leave)>>,
   <<SwitchArm(<<"block", <<VarOf("z", 3), leave>> >>)>>}

\* the loops: while (go) { go = false; ... }, for (var i = 1; go;
\* go = false) { ... } and foreach (var x in [10, 11]) { ... }, each with
\* a body that leaves and one that does not
Loops ==
  {<<"while", <<"variable", "go">>, <<"block", <<GoOff>> \o body>> >> :
     body \in LeaveBodies(<<"break">>) \cup LeaveBodies(<<"continue">>)
              \cup {<<VarOf("x", 1), Read("x")>>}}
  \cup {<<"for", VarOf("i", 1), <<"variable", "go">>,
          <<"assign", "go", <<"false">> >>, <<"block", body>> >> :
          body \in {<<leave>> : leave \in {<<"break">>, <<"continue">>}}
                   \cup {<<VarOf("x", 1), leave>> :
                           leave \in {<<"break">>, <<"continue">>}}
                   \cup {<<Read("i")>>}}
  \cup {<<"foreach", "x", <<"list", << <<"number", 10>>, <<"number", 11>> >> >>,
          <<"block", body>> >> :
          body \in {<<leave>> : leave \in {<<"break">>, <<"continue">>}}
                   \cup {<<VarOf("y", 1), leave>> :
                           leave \in {<<"break">>, <<"continue">>}}
                   \cup {<<SwitchArm(leave)>> :
                           leave \in {<<"break">>, <<"continue">>}}}

\* var go = true; the loop, at the top of the script or in a block after a
\* local that is read after the loop; and a statement
LoopScripts ==
  {<< <<"var", "go", <<"true">> >>, loop, Number(7)>> : loop \in Loops}
  \cup {<< <<"var", "go", <<"true">> >>,
           <<"block", <<VarOf("a", 5), loop, Read("a")>> >>, Number(7)>> :
          loop \in Loops}

InitLoops ==
  \E tree \in LoopScripts :
    InitCode(<<ScriptFrame>>, <<CLOSURE_VAL(1)>>, <<ScriptClosure>>, <<>>,
             <<>>, compile(tree), tree)

SpecLoops == InitLoops /\ [][NextForeach]_vars

\* The loops of a statement compiled at the end of c that are in no other
\* loop and in no switch: for each the continue target, the address that
\* the exit jump is patched to, and the height of the stack when the loop
\* arrives at either without break or continue, which is that of the
\* compiler's locals and, in a foreach loop, the iterable and the iterator
\* above them
RECURSIVE loopTargets(_, _, _)
RECURSIVE blockTargets(_, _, _, _)
loopTargets(c, compiler, s) ==
  CASE s[1] = "while" ->
         {[start |-> Len(c), exit |-> Len(statement(c, compiler, s)),
           height |-> Len(compiler.locals), kind |-> "while"]}
    [] s[1] = "for" ->
         LET scope == declared(beginScope(compiler), s[2])
             c1 == statement(c, beginScope(compiler), s[2])
             c2 == emitJump(emitJump(expression(c1, s[3]), "OP_JUMP_IF_FALSE"),
                            "OP_JUMP")
         IN  {[start |-> Len(c2),
               exit |-> Len(statement(c, compiler, s)) - 1,
               height |-> Len(scope.locals), kind |-> "for"]}
    [] s[1] = "foreach" ->
         LET scope == declareVariable(beginScope(compiler), s[2])
             c1 == emitPair(emitByte(c, "OP_NULL"), "OP_SET_LOCAL", 0)
             c2 == emitByte(emitPair(expression(c1, s[3]), "OP_INVOKE",
                                     "iterator"), 0)
         IN  {[start |-> Len(c2),
               exit |-> Len(statement(c, compiler, s)) - 1,
               height |-> Len(scope.locals) + 2, kind |-> "foreach"]}
    [] s[1] = "block" -> blockTargets(c, beginScope(compiler), s[2], 1)
    [] OTHER -> {}

blockTargets(c, compiler, statements, k) ==
  IF k > Len(statements) THEN {}
  ELSE loopTargets(c, compiler, statements[k])
       \cup blockTargets(statement(c, compiler, statements[k]),
                         declared(compiler, statements[k]), statements, k + 1)

LoopTargets == blockTargets(<<>>, initCompiler, source, 1)

\* the script is at address a
ScriptAt(a) == Running /\ Len(frames) = 1 /\ frames[1].ip = a

\* C22: whenever control arrives at the exit of a loop or at its continue
\* target, the stack is as high as when the loop arrives there without
\* break or continue: so it is after a break or continue in nested blocks
\* that have declared locals, and in the arm of a switch.
C22_LeaveHeight ==
  chunk # <<>> =>
    \A l \in LoopTargets :
      (ScriptAt(l.exit) \/ ScriptAt(l.start)) => Len(stack) = l.height

\* what the code does: the stack is never lower there
C22_LeaveNotLower ==
  chunk # <<>> =>
    \A l \in LoopTargets :
      (ScriptAt(l.exit) \/ ScriptAt(l.start)) => Len(stack) >= l.height

\* a loop has been left by break, and the stack is higher at its exit
C22_BreakLeaves ==
  /\ chunk # <<>>
  /\ \E l \in LoopTargets :
       ScriptAt(l.exit) /\ Len(stack) > l.height /\ l.kind = "while"

\* continue has arrived at its target with the stack higher
C22_ContinueLeaves ==
  /\ chunk # <<>>
  /\ \E l \in LoopTargets :
       ScriptAt(l.start) /\ Len(stack) > l.height /\ lastOp = "OP_LOOP"

(***************************************************************************)
(* SpecGrow: calls nested until call grows the frame array and the value    *)
(* stack.  Every function makes a closure and calls it, or returns null;    *)
(* the outermost functions may capture their slot 0 in the closure, so      *)
(* that upvalues are open when the stack grows.                             *)
(***************************************************************************)
GrowDepth == 66
GrowCaptures == 2

\* the captures of the closure made in the current frame
GrowCaps ==
  IF Len(frames) <= GrowCaptures THEN {<<>>, << <<TRUE, 0>> >>} ELSE {<<>>}

InitGrow == InitVM(<<>>)

NextGrow ==
  \/ /\ Running /\ Len(frames) < GrowDepth
     /\ Len(stack) = CurrentFrame.slots + 1
     /\ lastOp \in {"interpret", "OP_CALL"}
     /\ \E caps \in GrowCaps :
          OP_CLOSURE(Function(0, FALSE, FALSE, Len(caps)), caps)
  \/ lastOp = "OP_CLOSURE" /\ OP_CALL(0)
  \/ /\ Running /\ Len(stack) = CurrentFrame.slots + 1
     /\ lastOp \in {"OP_CALL", "OP_POP"}
     /\ OP_NULL
  \/ lastOp = "OP_NULL" /\ OP_RETURN
  \/ lastOp = "OP_RETURN" /\ OP_POP

SpecGrow == InitGrow /\ [][NextGrow]_vars

OpenUpvalues == {u \in 1..Len(upvalues) : upvalues[u].location # -1}

\* the step is a call that grew the frame array and the stack
Grows == stackSize' # stackSize

\* C24: after call has grown the frame array and the value stack, the slots
\* of every frame and the location of every open upvalue designate the
\* positions of the stack they did before, with the same contents, and none
\* of them points into the storage that the stack occupied before.
C24_GrowthKeepsPointers ==
  /\ \A i \in 1..Len(frames) : frames[i].storage = stackStorage
  /\ \A u \in OpenUpvalues : upvalues[u].storage = stackStorage

\* what the code does: the contents of the stack, its height, and the
\* offsets of the frames and of the open upvalues are kept, and the frame
\* that the call pushes points into the storage the stack has afterwards
C24_GrowthKeepsOffsets ==
  [][Grows =>
       /\ SubSeq(stack', 1, Len(stack)) = stack
       /\ \A i \in 1..Len(frames) : frames'[i].slots = frames[i].slots
       /\ \A u \in OpenUpvalues : upvalues'[u].location = upvalues[u].location
       /\ frames'[Len(frames')].storage = stackStorage']_vars

\* the stack has grown into another block while an upvalue was open
C24_GrownWithOpenUpvalue ==
  /\ stackSize > StackPerFrame * InitialFrameSize
  /\ stackStorage # 0
  /\ OpenUpvalues # {}
  /\ lastOp = "OP_CALL"

\* the stack has grown in place
C24_GrownInPlace ==
  /\ stackSize > StackPerFrame * InitialFrameSize
  /\ stackStorage = 0
  /\ lastOp = "OP_CALL"

(***************************************************************************)
(* SpecBound: a native method stored in a variable.  The scripts are        *)
(*   var l1 = [10]; var l2 = [10, 11]; var f = l1.length; ... f();          *)
(* with, in between, nothing, a look-up of the method on either list, a     *)
(* call of it on either list, or a look-up of another method.               *)
(***************************************************************************)
ListOf(n) == <<"list", [k \in 1..n |-> <<"number", 9 + k>>]>>

Length(r) == <<"get", <<"variable", r>>, "length">>

CallOf(v) == <<"expression", <<"call", <<"variable", v>>, <<>> >> >>

Between ==
  {<<>>,
   << <<"expression", Length("l2")>> >>,
   << <<"expression", Length("l1")>> >>,
   << <<"expression", <<"invoke", <<"variable", "l2">>, "length", <<>> >> >> >>,
   << <<"expression", <<"invoke", <<"variable", "l1">>, "length", <<>> >> >> >>,
   << <<"expression", <<"get", <<"variable", "l2">>, "iterator">> >> >>,
   << <<"var", "g", Length("l2")>>, CallOf("g") >>}

BoundScripts ==
  {<< <<"var", "l1", ListOf(1)>>, <<"var", "l2", ListOf(2)>>,
      <<"var", "f", Length("l1")>> >> \o between \o <<CallOf("f")>> :
     between \in Between}

InitBound ==
  \E tree \in BoundScripts :
    InitCode(<<ScriptFrame>>, <<CLOSURE_VAL(1)>>, <<ScriptClosure>>, <<>>,
             <<>>, compile(tree), tree)

NextBound ==
  \/ At("OP_CONSTANT") /\ OP_CONSTANT(NUMBER_VAL(READ_BYTE(1)))
  \/ At("OP_LIST") /\ OP_LIST(READ_BYTE(1))
  \/ At("OP_DEFINE_GLOBAL") /\ OP_DEFINE_GLOBAL(READ_BYTE(1))
  \/ At("OP_GET_GLOBAL") /\ OP_GET_GLOBAL(READ_BYTE(1))
  \/ At("OP_GET_PROPERTY") /\ OP_GET_PROPERTY(READ_BYTE(1))
  \/ At("OP_INVOKE") /\ OP_INVOKE(READ_BYTE(1), READ_BYTE(2))
  \/ At("OP_CALL") /\ OP_CALL(READ_BYTE(1))
  \/ At("OP_POP") /\ OP_POP
  \/ At("OP_NULL") /\ OP_NULL
  \/ At("OP_RETURN") /\ OP_RETURN

SpecBound == InitBound /\ [][NextBound]_vars

\* the statements of the script that call a variable
StoredCalls ==
  {k \in 1..Len(source) :
     source[k][1] = "expression" /\ source[k][2][1] = "call"}

\* the variable that statement k calls, the list whose method was stored in
\* it, and the number of items of that list
CalledVariable(k) == source[k][2][2][2]
StoredReceiver(v) ==
  LET j == CHOOSE j \in 1..Len(source) :
             source[j][1] = "var" /\ source[j][2] = v
  IN  source[j][3][2][2]
ItemsOf(r) ==
  LET j == CHOOSE j \in 1..Len(source) :
             source[j][1] = "var" /\ source[j][2] = r
  IN  Len(source[j][3][2])

\* the call of statement k has just returned
Called(k) ==
  /\ ScriptAt(Len(block(<<>>, initCompiler, SubSeq(source, 1, k), 1)) - 1)
  /\ lastOp = "OP_CALL"

\* C25: a native method that was looked up on a receiver and stored is
\* called with that receiver when it is called later, also when the method
\* has been looked up or called on another receiver in between: the stored
\* length of a list yields the number of items of that list.
C25_StoredKeepsReceiver ==
  chunk # <<>> =>
    \A k \in StoredCalls :
      Called(k) =>
        stack[Len(stack)]
          = NUMBER_VAL(ItemsOf(StoredReceiver(CalledVariable(k))))

\* what the code does: the method is called with the receiver that it was
\* bound to last, by a look-up or a call of that method on any value
C25_CalledWithLastBound ==
  [][lastOp' = "OP_CALL" /\ IS_NATIVE(callInfo'.callee) =>
       /\ IS_LIST(natives[AS_OBJ(callInfo'.callee)])
       /\ stack'[Len(stack')]
            = NUMBER_VAL(Len(lists[AS_OBJ(natives[AS_OBJ(callInfo'.callee)])]))
    ]_vars

\* f has been called after the method was bound to the other list
C25_CalledAfterRebinding ==
  /\ chunk # <<>>
  /\ \E k \in StoredCalls :
       /\ Called(k) /\ CalledVariable(k) = "f"
       /\ natives[NativeLength] = LIST_VAL(2)

\* f has been called while the method was bound to the list it was stored
\* from
C25_CalledWithoutRebinding ==
  /\ chunk # <<>>
  /\ \E k \in StoredCalls :
       /\ Called(k) /\ CalledVariable(k) = "f"
       /\ natives[NativeLength] = LIST_VAL(1)
       /\ stack[Len(stack)] = NUMBER_VAL(1)

(***************************************************************************)
(* SpecOperands: constants and operators, with and without a handler:      *)
(* what an operator that raises has taken off the stack.                   *)
(***************************************************************************)
\* the list a..b: up to b where b is greater, else down to it
rangeItems(a, b) ==
  IF b > a THEN [i \in 1..(b - a + 1) |-> NUMBER_VAL(a + i - 1)]
  ELSE [i \in 1..(a - b + 1) |-> NUMBER_VAL(a - i + 1)]

rangeList(m, a, b) ==
  LET l == newList(m, rangeItems(a, b)) IN push(l.m, LIST_VAL(l.list))

\* OP_RANGE: the operands are popped first; where one is no number two more
\* values are popped, which the stack may not have
opRange(m) ==
  IF ~IS_NUMBER(peek(m, 1)) \/ ~IS_NUMBER(peek(m, 0))
  THEN IF Len(m.stack) < 4
       THEN [m |-> [m EXCEPT !.crashed = TRUE],
             res |-> INTERPRETER_RUNTIME_ERR]
       ELSE throwOrFail(pop(pop(pop(pop(m)))), TypeException)
  ELSE IF ~isInteger(peek(m, 1)) \/ ~isInteger(peek(m, 0))
  THEN throwOrFail(pop(pop(m)), TypeException)
  ELSE continue(rangeList(pop(pop(m)), AS_NUMBER(peek(m, 1)),
                          AS_NUMBER(peek(m, 0))))

OP_RANGE ==
  /\ HasOperands(2)
  /\ Commit(opRange(fetch(VM, 1)), "OP_RANGE", NoCall)

OperandStack == 5
OperandLists == 1
OperandConstants == {NUMBER_VAL(1), NUMBER_VAL(2), HALF_VAL(3), NULL_VAL}

\* the script has pushed up to four constants, in a try block or outside
InitOperands ==
  \E isTry \in BOOLEAN,
     operands \in UNION {[1..n -> OperandConstants] :
                          n \in 0..(OperandStack - 1)} :
    InitWith(<<[ScriptFrame EXCEPT !.isTry = isTry,
                                  !.catchJump = IF isTry THEN CodeLen ELSE 0]>>,
             <<CLOSURE_VAL(1)>> \o operands, <<ScriptClosure>>, <<>>, <<>>)

NextOperands ==
  \/ \E constant \in OperandConstants :
       Len(stack) < OperandStack /\ OP_CONSTANT(constant)
  \/ OP_NEGATE
  \/ OP_BIT_NOT
  \/ OP_SUB
  \/ OP_AND
  \/ OP_RSH(0)
  \/ Len(lists) < OperandLists /\ OP_RANGE

SpecOperands == InitOperands /\ [][NextOperands]_vars

UnaryOps == {"OP_NEGATE", "OP_BIT_NOT"}
BinaryOps == {"OP_SUB", "OP_AND", "OP_RSH", "OP_RANGE"}

\* the stack after the step is that before it without its top n values,
\* and the exception on top
Removed(n) ==
  /\ ~crashed'
  /\ stack' = SubSeq(stack, 1, Len(stack) - n) \o <<raised'>>

\* an operator has raised TypeException in a frame that catches it, where
\* the stack is left as the instruction left it
OperatorRaises(ops) ==
  /\ lastOp' \in ops
  /\ CurrentFrame.isTry
  /\ TypeRaised \/ crashed'

\* C26: an operator that raises TypeException for its operands has taken
\* exactly its operands off the stack, one if it is unary and two if it is
\* binary, and nothing else, before the exception is pushed.
C26_OperandsRemoved ==
  [][/\ OperatorRaises(UnaryOps) => Removed(1)
     /\ OperatorRaises(BinaryOps) => Removed(2)]_vars

\* what the code does: so do the operators of the two macros, and every
\* operator when its operands are numbers that are not whole
C26_MacroOperandsRemoved ==
  [][/\ OperatorRaises({"OP_BIT_NOT"}) /\ IS_NUMBER(peek(VM, 0)) => Removed(1)
     /\ OperatorRaises({"OP_SUB", "OP_AND"}) => Removed(2)
     /\ OperatorRaises({"OP_RSH", "OP_RANGE"}) /\ IS_NUMBER(peek(VM, 0))
          /\ IS_NUMBER(peek(VM, 1)) => Removed(2)
     /\ OperatorRaises({"OP_NEGATE", "OP_BIT_NOT", "OP_RSH"})
          /\ (~IS_NUMBER(peek(VM, 0))
                \/ (lastOp' = "OP_RSH" /\ ~IS_NUMBER(peek(VM, 1))))
          => Removed(0)
     /\ OperatorRaises({"OP_RANGE"})
          /\ (~IS_NUMBER(peek(VM, 0)) \/ ~IS_NUMBER(peek(VM, 1)))
          => crashed' \/ Removed(4)]_vars

\* >>> has raised and its operands lie under the exception
C26_OperandsLeft ==
  /\ lastOp = "OP_RSH" /\ result = INTERPRETER_CONTINUE
  /\ Len(stack) >= 4
  /\ stack[Len(stack)] = raised
  /\ stack[Len(stack) - 1] = NULL_VAL

\* .. has raised and has taken the script's closure with its operands
C26_FourRemoved ==
  /\ lastOp = "OP_RANGE" /\ result = INTERPRETER_CONTINUE
  /\ stack = <<raised>>

\* - has raised and has taken its two operands
C26_TwoRemoved ==
  /\ lastOp = "OP_SUB" /\ result = INTERPRETER_CONTINUE
  /\ Len(stack) = 2 /\ stack[2] = raised /\ raised # NoException

(***************************************************************************)
(* SpecTable: a table in memory (src/src/table.c) under any sequence of    *)
(* tableSet, tableDelete and tableAddAll, and as the globals of the        *)
(* current module under OP_SET_GLOBAL.  tables[1] is the table operated    *)
(* on, tables[2] the table that tableAddAll copies from.  The keys are     *)
(* interned strings; the hashes of two of them fall on one entry of a      *)
(* table of capacity 8 and of 16, that of the third on the entry after it  *)
(* in a table of capacity 8.                                               *)
(***************************************************************************)
MaxCapacity == 16
\* "a", "q", "b"
TableNames == <<(<<97>>), (<<113>>), (<<98>>)>>
TableKeys == 1..Len(TableNames)
FromKeys == {2}
TableValues == {NUMBER_VAL(1)}
FromValue == NUMBER_VAL(2)

\* tableGet: whether the key was found, and *value
tableGetEntry(objs, table, key) ==
  IF table.count = 0 THEN [found |-> FALSE, value |-> NULL_VAL]
  ELSE IF table.entries[findEntry(objs, table.entries, table.capacity,
                                  key) + 1].key = 0
       THEN [found |-> FALSE, value |-> NULL_VAL]
       ELSE [found |-> TRUE,
             value |-> table.entries[findEntry(objs, table.entries,
                                               table.capacity, key) + 1].value]

\* the bool that tableDelete returns
tableDeleteFound(objs, table, key) ==
  IF table.count = 0 THEN FALSE
  ELSE table.entries[findEntry(objs, table.entries, table.capacity,
                               key) + 1].key # 0

\* tableAddAll on tables in memory: the entries of `from' in the order of
\* its array
RECURSIVE tableAddFrom(_, _, _, _)
tableAddFrom(objs, from, to, i) ==
  IF i > from.capacity THEN to
  ELSE tableAddFrom(objs, from,
                    IF from.entries[i].key # 0
                    THEN tableSet(objs, to, from.entries[i].key,
                                  from.entries[i].value).table
                    ELSE to,
                    i + 1)

tableAddAllEntries(objs, from, to) == tableAddFrom(objs, from, to, 1)

\* a plausible slip: the entry that tableSet made for the undefined name is
\* left in the table
setGlobalKeepsEntry(objs, set, key) ==
  [table |-> set.table, thrown |-> set.isNewKey]

\* OP_SET_GLOBAL once tableSet has returned: a new key is deleted again and
\* the exception thrown
setGlobalAfter(objs, set, key) ==
  IF set.isNewKey
  THEN [table |-> tableDelete(objs, set.table, key), thrown |-> TRUE]
  ELSE [table |-> set.table, thrown |-> FALSE]

opSetGlobalIn(objs, table, key, value) ==
  setGlobalAfter(objs, tableSet(objs, table, key, value), key)

\* what a call of the table functions leaves of the machine
TableCalled(op, t, key) ==
  /\ lastOp' = op
  /\ callInfo' = [callee |-> <<"name", key>>, args |-> <<t>>, base |-> 0,
                  depth |-> 0]
  /\ UNCHANGED <<frames, stack, openUpvalues, upvalues, closures, lists,
                 strObjs, strings, frameSize, stackSize, stackStorage,
                 result, crashed, raised, nativeCalls, modules, classes,
                 instances, natives, exceptionClass, importTable, chunk,
                 source, shouldGC, building>>

TableSetDone(t, key, value, set) ==
  /\ set.table.capacity <= MaxCapacity
  /\ tables' = [tables EXCEPT ![t] = set.table]
  /\ contents' = [contents EXCEPT ![t] = tablePut(@, key, value)]
  /\ answer' = set.isNewKey
  /\ TableCalled("tableSet", t, key)

TableSet(t, key, value) ==
  TableSetDone(t, key, value, tableSet(strObjs, tables[t], key, value))

TableDelete(t, key) ==
  /\ tables' = [tables EXCEPT ![t] = tableDelete(strObjs, @, key)]
  /\ contents' = [contents EXCEPT ![t] = tableRemove(@, key)]
  /\ answer' = tableDeleteFound(strObjs, tables[t], key)
  /\ TableCalled("tableDelete", t, key)

TableAddAllDone(from, to, added) ==
  /\ added.capacity <= MaxCapacity
  /\ tables' = [tables EXCEPT ![to] = added]
  /\ contents' = [contents EXCEPT ![to] = tableAddAll(contents[from], @)]
  /\ answer' = answer
  /\ TableCalled("tableAddAll", to, 0)

TableAddAll(from, to) ==
  TableAddAllDone(from, to,
                  tableAddAllEntries(strObjs, tables[from], tables[to]))

\* OP_SET_GLOBAL with the globals of the current module in memory
SetGlobalDone(key, r) ==
  /\ r.table.capacity <= MaxCapacity
  /\ CommitVM(IF r.thrown
              THEN throwOrFail(fetch(VM, 2), UndefinedVariableException)
              ELSE continue(fetch(VM, 2)),
              "OP_SET_GLOBAL", NameInfo(key))
  /\ UNCHANGED <<shouldGC, building>>
  /\ tables' = [tables EXCEPT ![1] = r.table]
  /\ contents' = [contents EXCEPT ![1] =
                    IF r.thrown
                    THEN tableRemove(tablePut(@, key, peek(VM, 0)), key)
                    ELSE tablePut(@, key, peek(VM, 0))]
  /\ answer' = r.thrown

SetGlobalInTable(key) ==
  /\ Running /\ CanFetch(2)
  /\ Len(stack) > CurrentFrame.slots + 1
  /\ SetGlobalDone(key, opSetGlobalIn(strObjs, tables[1], key, peek(VM, 0)))

\* the script has pushed a null (OP_NULL, or OP_TRY_BEGIN and OP_NULL) and
\* goes on with assignments of it
InitTable ==
  \E isTry \in BOOLEAN :
    InitWith(<<[ScriptFrame EXCEPT !.ip = IF isTry THEN 4 ELSE 1,
                                  !.isTry = isTry,
                                  !.catchJump = IF isTry THEN CodeLen ELSE 0]>>,
             <<CLOSURE_VAL(1), NULL_VAL>>, <<ScriptClosure>>, <<>>,
             TableNames)

NextTable ==
  \/ \E key \in TableKeys, value \in TableValues : TableSet(1, key, value)
  \/ \E key \in FromKeys : TableSet(2, key, FromValue)
  \/ \E key \in TableKeys : TableDelete(1, key)
  \/ TableAddAll(2, 1)
  \/ \E key \in TableKeys : SetGlobalInTable(key)

SpecTable == InitTable /\ [][NextTable]_vars

Found(t, key) == tableGetEntry(strObjs, tables[t], key)
IsSet(t, key) == tableHas(contents[t], key)

UndefinedVariableRaised ==
  raised' = INST_VAL(GlobalClassOf(currentModule(VM),
                                   "UndefinedVariableException"))

SetsUndefined(key) ==
  /\ lastOp' = "OP_SET_GLOBAL"
  /\ callInfo'.callee = <<"name", key>>
  /\ ~Found(1, key).found

\* C27: OP_SET_GLOBAL on a name without a binding in the globals of the
\* current module raises UndefinedVariableException, and tableGet answers
\* afterwards for every name what it answered before: the name is still
\* undefined and every other binding has its value.
C27_UndefinedSetLeavesGlobals ==
  [][\A key \in TableKeys :
       SetsUndefined(key) =>
         /\ UndefinedVariableRaised
         /\ \A k \in TableKeys :
              tableGetEntry(strObjs, tables'[1], k) = Found(1, k)]_vars

\* an undefined name was assigned to beside a binding, in a table that has
\* grown
C27_UndefinedSetBesideBinding ==
  /\ lastOp = "OP_SET_GLOBAL"
  /\ answer
  /\ raised # NoException
  /\ DOMAIN contents[1] # {}
  /\ tables[1].capacity > 8

\* the call is about table t and key
CallOn(op, t, key) ==
  /\ lastOp' = op
  /\ callInfo'.callee = <<"name", key>>
  /\ callInfo'.args = <<t>>

Refines(t) ==
  \A key \in TableKeys :
    /\ Found(t, key).found = IsSet(t, key)
    /\ IsSet(t, key) => Found(t, key).value = contents[t][key]

\* C28: after any sequence of tableSet, tableDelete and tableAddAll,
\* tableGet finds a key iff it was set and not deleted since, with the
\* value last set; tableSet returns true iff the key was absent, and
\* tableDelete returns true iff it was present.
C28_TableRefinesMap ==
  [][/\ Refines(1)' /\ Refines(2)'
     /\ \A t \in {1, 2}, key \in TableKeys :
          /\ CallOn("tableSet", t, key) => (answer' = ~IsSet(t, key))
          /\ CallOn("tableDelete", t, key) => (answer' = IsSet(t, key))]_vars

Tombstones(table) ==
  {i \in 1..table.capacity : table.entries[i] = Tombstone}

\* after a growth, a key is found behind a tombstone, and tableAddAll has
\* written over a binding
C28_FoundBehindTombstone ==
  /\ tables[1].capacity > 8
  /\ \E key \in DOMAIN contents[1] :
       /\ HashIndex(strObjs[key].hash, tables[1].capacity) + 1
            \in Tombstones(tables[1])
       /\ Found(1, key).found
  /\ \E key \in DOMAIN contents[1] : contents[1][key] = FromValue

(***************************************************************************)
(* SpecLoad: the load of a table.  There are as many keys as a table of    *)
(* capacity 8 has entries but one, so that the table would fill if it did  *)
(* not grow; the intern table of the machine holds them all.               *)
(***************************************************************************)
\* "a", "q", "b", "c", "d", "e", "f"
LoadNames ==
  <<(<<97>>), (<<113>>), (<<98>>), (<<99>>), (<<100>>), (<<101>>),
    (<<102>>)>>
LoadKeys == 1..Len(LoadNames)

InitLoad == InitVM(LoadNames)

NextLoad ==
  \/ \E key \in LoadKeys : TableSet(1, key, NUMBER_VAL(1))
  \/ \E key \in LoadKeys : TableDelete(1, key)

SpecLoad == InitLoad /\ [][NextLoad]_vars

\* the entries that hold a key or a tombstone
NonEmpty(table) ==
  {i \in 1..table.capacity : table.entries[i] # EmptyEntry}

\* the probe of tableFindString for a string that is not in the table,
\* begun at `index': whether it comes to an entry that was never used
RECURSIVE missEnds(_, _, _)
missEnds(table, index, n) ==
  IF n > table.capacity THEN FALSE
  ELSE IF table.entries[index + 1] = EmptyEntry THEN TRUE
  ELSE missEnds(table, (index + 1) % table.capacity, n + 1)

ProbesEnd(objs, table) ==
  /\ \A key \in 1..Len(objs) :
       findEntry(objs, table.entries, table.capacity, key) # -1
  /\ \A index \in 0..(table.capacity - 1) : missEnds(table, index, 1)

LoadKept(objs, table) ==
  table.capacity > 0 =>
    /\ Cardinality(NonEmpty(table)) <= table.count
    /\ 4 * Cardinality(NonEmpty(table)) <= 3 * table.capacity
    /\ \E i \in 1..table.capacity : table.entries[i] = EmptyEntry
    /\ ProbesEnd(objs, table)

\* C29: in every table of capacity above 0 the entries that are not empty
\* (keys and tombstones) are at most count and at most 75% of the capacity,
\* so that an entry never used exists and the probes of findEntry and
\* tableFindString end.
C29_LoadKept ==
  /\ LoadKept(strObjs, tables[1])
  /\ LoadKept(strObjs, strings)

\* the table has grown, holds tombstones, and the next new key makes it
\* grow again
C29_FullWithTombstones ==
  /\ tables[1].capacity > 8
  /\ Tombstones(tables[1]) # {}
  /\ 4 * (tables[1].count + 1) > 3 * tables[1].capacity

(***************************************************************************)
(* SpecBuild: interpret and OP_IMPORT at work on a module, one step per    *)
(* allocation, push, pop and assignment of src/src/vm.c:1344-1368 and      *)
(* 1475-1497, src/unnamed/part_008 (initModule), src/src/natives.c:78-85   *)
(* and 127-133, and src/unnamed/part_000:61-89 (the exception classes).    *)
(* The collector is not in src/: what it marks is taken from section 4.5   *)
(* of the specification (the stack, the closures of the frames, the tables *)
(* of the modules in vm->modules, the intern table, the function of the    *)
(* compiler chain), and it may run at every allocation made while          *)
(* vm->shouldGC is set, the sizes allocated being those of the program.    *)
(***************************************************************************)
GlobalConstants == <<"Object", "Iterator", "Import", "NaN", "Infinity">>
GlobalNatives == <<"toString", "repr", "clock", "sqrt", "print", "input">>

StringObj(name) == <<"string", name>>
NativeObj(name) == <<"native", name>>
ClassObj(name) == <<"class", name>>
FunctionObj == <<"function", "script">>
ClosureObj == <<"closure", "script">>
NoObj == <<"none">>

\* tableSet(vm, &mod->globals, copyString(vm, name, n), value) with a value
\* that is not an object made for the module
setConstantSteps(name) ==
  <<(<<"new", StringObj(name)>>), (<<"tableSet", NoObj>>)>>

\* defineNative
defineNativeSteps(name) ==
  <<(<<"new", StringObj(name)>>), (<<"push", StringObj(name)>>),
    (<<"new", NativeObj(name)>>), (<<"push", NativeObj(name)>>),
    (<<"tableSet", NativeObj(name)>>), (<<"pop">>), (<<"pop">>)>>

\* defineExceptionClasses and defineException, for one class: tableAddAll
\* makes the array of the class's method table
defineExceptionSteps(name) ==
  <<(<<"new", StringObj(name)>>), (<<"push", StringObj(name)>>),
    (<<"new", ClassObj(name)>>), (<<"push", ClassObj(name)>>),
    (<<"allocate">>), (<<"tableSet", ClassObj(name)>>),
    (<<"pop">>), (<<"pop">>)>>

RECURSIVE constantSteps(_)
constantSteps(i) ==
  IF i > Len(GlobalConstants) THEN <<>>
  ELSE setConstantSteps(GlobalConstants[i]) \o constantSteps(i + 1)
RECURSIVE nativeSteps(_)
nativeSteps(i) ==
  IF i > Len(GlobalNatives) THEN <<>>
  ELSE defineNativeSteps(GlobalNatives[i]) \o nativeSteps(i + 1)
RECURSIVE exceptionSteps(_)
exceptionSteps(i) ==
  IF i > Len(ExceptionNames) THEN <<>>
  ELSE defineExceptionSteps(ExceptionNames[i]) \o exceptionSteps(i + 1)

initModuleSteps == constantSteps(1) \o nativeSteps(1) \o exceptionSteps(1)

\* compile, and vm->compiler = NULL: the function is made at the start of
\* the compilation and held by the compiler while the chunk, its constants
\* and the nested functions are allocated
compileSteps ==
  <<(<<"compile">>), (<<"allocate">>), (<<"endCompiler">>)>>

\* push(function); newClosure; pop; push(closure)
closureSteps ==
  <<(<<"push", FunctionObj>>), (<<"allocate">>), (<<"new", ClosureObj>>),
    (<<"pop">>), (<<"push", ClosureObj>>)>>

\* interpret: "$main$" is copied for $thisModule after the module was made
\* the list of modules
interpretSteps ==
  compileSteps \o <<(<<"allocate">>)>> \o initModuleSteps
    \o <<(<<"link">>), (<<"new", StringObj("$main$")>>),
         (<<"tableSet", NoObj>>)>>
    \o closureSteps \o <<(<<"call">>)>>

\* OP_IMPORT of a path that is not in the import table: makeStringf makes
\* the path looked up; the module is appended to the list of modules
importSteps ==
  <<(<<"new", StringObj("lookupPath")>>)>> \o compileSteps
    \o <<(<<"allocate">>)>> \o initModuleSteps
    \o <<(<<"link">>), (<<"tableSet", NoObj>>)>>
    \o closureSteps \o <<(<<"call">>)>>

Steps(routine) ==
  IF routine = "interpret" THEN interpretSteps
  ELSE IF routine = "OP_IMPORT" THEN importSteps
  ELSE <<>>

Building == building.pc >= 1 /\ building.pc <= Len(Steps(building.routine))
Step == Steps(building.routine)[building.pc]
AtStep(kind) == Building /\ Step[1] = kind

\* the objects the collector marks first
Roots(b) ==
  {b.held[i] : i \in 1..Len(b.held)}
    \cup (IF b.linked THEN b.globals ELSE {})
    \cup {o \in b.objects : o[1] = "string"}
    \cup (IF b.called THEN {ClosureObj} ELSE {})
    \cup {b.compiler}

\* and those it marks from them: the function of a closure, the superclass
\* of a class
Marked(b) ==
  Roots(b)
    \cup (IF ClosureObj \in Roots(b) THEN {FunctionObj} ELSE {})
    \cup (IF \E o \in Roots(b) : o[1] = "class"
          THEN {ClassObj("Exception")} ELSE {})

Unreached(b) == b.objects \ Marked(b)

\* collectGarbage: the objects not marked are freed
sweep(b) ==
  [b EXCEPT !.objects = @ \ Unreached(b), !.freed = @ \cup Unreached(b)]

\* reallocate for more bytes: the collector runs first when the bytes
\* allocated have passed vm->nextGC
allocation(b, collect) == IF collect THEN sweep(b) ELSE b

next(b) == [b EXCEPT !.pc = @ + 1]

\* tableSet on the globals of the module grows the array first
GlobalsGrow(b) == 4 * (b.count + 1) > 3 * b.capacity

Built(b, op) ==
  /\ building' = b
  /\ lastOp' = op
  /\ UNCHANGED <<frames, stack, openUpvalues, upvalues, closures, lists,
                 strObjs, strings, frameSize, stackSize, stackStorage,
                 result, crashed, raised, nativeCalls, callInfo, modules,
                 classes, instances, natives, exceptionClass, importTable,
                 chunk, source, tables, contents, answer, shouldGC>>

MayCollect(collect) == collect => shouldGC

\* interpret is called, or OP_IMPORT has not found the path
BuildBegin(routine) ==
  /\ building.routine = "none"
  /\ Built([NotBuilding EXCEPT !.routine = routine, !.pc = 1], routine)

BuildCompile(collect) ==
  /\ AtStep("compile") /\ MayCollect(collect)
  /\ Built(next([allocation(building, collect) EXCEPT
                   !.objects = @ \cup {FunctionObj},
                   !.compiler = FunctionObj]), "compile")

BuildEndCompiler ==
  /\ AtStep("endCompiler")
  /\ Built(next([building EXCEPT !.compiler = NoObj]), "endCompiler")

BuildAllocate(collect) ==
  /\ AtStep("allocate") /\ MayCollect(collect)
  /\ Built(next(allocation(building, collect)), "allocate")

BuildNew(collect) ==
  /\ AtStep("new") /\ MayCollect(collect)
  /\ Built(next([allocation(building, collect) EXCEPT
                   !.objects = @ \cup {Step[2]}]), "new")

BuildPush ==
  /\ AtStep("push")
  /\ Built(next([building EXCEPT !.held = Append(@, Step[2])]), "push")

BuildPop ==
  /\ AtStep("pop")
  /\ Built(next([building EXCEPT !.held = SubSeq(@, 1, Len(@) - 1)]), "pop")

\* tableSet of a new key in the globals of the module: adjustCapacity
\* counts the keys anew, and the key counts twice
tableSetGlobal(b, value, collect) ==
  [(IF GlobalsGrow(b)
    THEN [allocation(b, collect) EXCEPT !.capacity = GROW_CAPACITY(@),
                                        !.count = b.keys]
    ELSE b)
   EXCEPT !.count = @ + 2,
          !.keys = @ + 1,
          !.globals = IF value = NoObj THEN @ ELSE @ \cup {value}]

BuildTableSet(collect) ==
  /\ AtStep("tableSet") /\ MayCollect(collect)
  /\ collect => GlobalsGrow(building)
  /\ Built(next(tableSetGlobal(building, Step[2], collect)), "tableSet")

BuildLink ==
  /\ AtStep("link")
  /\ Built(next([building EXCEPT !.linked = TRUE]), "link")

BuildCall ==
  /\ AtStep("call")
  /\ Built(next([building EXCEPT !.called = TRUE]), "call")

InitBuild == InitVM(<<>>)

NextBuild ==
  \/ \E routine \in {"interpret", "OP_IMPORT"} : BuildBegin(routine)
  \/ \E collect \in BOOLEAN : BuildCompile(collect)
  \/ BuildEndCompiler
  \/ \E collect \in BOOLEAN : BuildAllocate(collect)
  \/ \E collect \in BOOLEAN : BuildNew(collect)
  \/ BuildPush
  \/ BuildPop
  \/ \E collect \in BOOLEAN : BuildTableSet(collect)
  \/ BuildLink
  \/ BuildCall

SpecBuild == InitBuild /\ [][NextBuild]_vars

\* the step allocates
Allocates ==
  \/ AtStep("compile") \/ AtStep("allocate") \/ AtStep("new")
  \/ AtStep("tableSet") /\ GlobalsGrow(building)

\* C30: at every allocation made while interpret or OP_IMPORT builds a
\* module and its closure, vm->shouldGC is false or every object made for
\* the construction so far is reached from a root.
C30_BuildRooted ==
  Allocates => (~shouldGC \/ Unreached(building) = {})

\* what does hold: at the allocations of the compilation, and at those made
\* once the module is in the list and the function on the stack, every
\* object that is left is reached
C30_RootedWhenHeld ==
  (/\ Allocates
   /\ \/ building.compiler = FunctionObj
      \/ /\ building.linked
         /\ \E i \in 1..Len(building.held) : building.held[i] = FunctionObj)
    => Unreached(building) = {}

\* the frame of the module runs a function that was freed
C30_FreedFunctionCalled ==
  building.called /\ FunctionObj \in building.freed

\* the module is in the list with a native in its globals that was freed
C30_FreedNativeInGlobals ==
  /\ building.linked
  /\ NativeObj("print") \in building.freed \cap building.globals

\* the closure is made with everything reached
C30_ClosureMadeRooted ==
  /\ AtStep("new") /\ Step[2] = ClosureObj
  /\ building.freed = {}

====
